---------------------------- MODULE Spec2Model ----------------------------
(***************************************************************************)
(* Verification model of the ClaudeKit Plans extension: the markdown plan  *)
(* parser (parser/planParser.ts), the phase-file metadata extractor        *)
(* (parser/phaseMetadataExtractor.ts), the status utilities                *)
(* (parser/statusUtils.ts), the plan metadata extractor                    *)
(* (parser/metadataExtractor.ts) and the project refresh (planProject.ts). *)
(*                                                                         *)
(* TEXT.  A string is a sequence of lexemes (atoms).  Every atom stands    *)
(* for the characters it spells; the vocabulary is cut so that each        *)
(* keyword the code searches for occurs in a text only as a run of whole   *)
(* atoms ("completed" is <<"complete","d">>, "undone" is <<"un","done">>), *)
(* so String.includes is sub-sequence search, toLowerCase maps atoms, and  *)
(* trim strips blank atoms.  Characters outside ASCII are named by their   *)
(* code point ("U+2705" is the white-heavy-check-mark emoji).              *)
(***************************************************************************)
EXTENDS Integers, Sequences, FiniteSets, TLC

-----------------------------------------------------------------------------
(* JavaScript values that are not strings *)
Undefined == <<"<undefined>">>
Null      == <<"<null>">>

(* JavaScript falsiness of an optional string *)
Falsy(v) == v = <<>> \/ v = Undefined \/ v = Null

-----------------------------------------------------------------------------
(* String primitives *)

LowerMap ==
  [a \in {"Complete", "COMPLETE", "Done", "DONE", "In", "IN", "Progress",
          "PROGRESS", "Active", "WIP", "Pending", "PENDING", "Todo", "TODO",
          "Status", "STATUS", "Phase", "PHASE", "Name", "Description",
          "Link", "Implementation", "Effort", "Field", "Value", "X",
          "Depends", "On", "D", "Setup", "Build", "Planned", "Cancelled",
          "Working", "U+0178"}
     |-> CASE a = "Complete" -> "complete"  [] a = "COMPLETE" -> "complete"
           [] a = "Done" -> "done"          [] a = "DONE" -> "done"
           [] a = "In" -> "in"              [] a = "IN" -> "in"
           [] a = "Progress" -> "progress"  [] a = "PROGRESS" -> "progress"
           [] a = "Active" -> "active"      [] a = "WIP" -> "wip"
           [] a = "Pending" -> "pending"    [] a = "PENDING" -> "pending"
           [] a = "Todo" -> "todo"          [] a = "TODO" -> "todo"
           [] a = "Status" -> "status"      [] a = "STATUS" -> "status"
           [] a = "Phase" -> "phase"        [] a = "PHASE" -> "phase"
           [] a = "Name" -> "name"
           [] a = "Description" -> "description"
           [] a = "Link" -> "link"
           [] a = "Implementation" -> "implementation"
           [] a = "Effort" -> "effort"
           [] a = "Field" -> "field"        [] a = "Value" -> "value"
           [] a = "X" -> "x"
           [] a = "Depends" -> "depends"    [] a = "On" -> "on"
           [] a = "D" -> "d"
           [] a = "Setup" -> "setup"        [] a = "Build" -> "build"
           [] a = "Planned" -> "planned"
           [] a = "Cancelled" -> "cancelled"
           [] a = "Working" -> "working"
           [] a = "U+0178" -> "U+00FF"]

LowerAtom(a) == IF a \in DOMAIN LowerMap THEN LowerMap[a] ELSE a

(* String.prototype.toLowerCase *)
ToLower(s) == [i \in 1..Len(s) |-> LowerAtom(s[i])]

IsSpace(a) == a = " "

(* String.prototype.trim *)
RECURSIVE TrimLeft(_)
TrimLeft(s) ==
  IF s # <<>> /\ IsSpace(Head(s)) THEN TrimLeft(Tail(s)) ELSE s

RECURSIVE TrimRight(_)
TrimRight(s) ==
  IF s # <<>> /\ IsSpace(s[Len(s)])
    THEN TrimRight(SubSeq(s, 1, Len(s) - 1)) ELSE s

Trim(s) == TrimRight(TrimLeft(s))

(* String.prototype.includes *)
Includes(s, kw) ==
  \E i \in 1..(Len(s) - Len(kw) + 1) : SubSeq(s, i, i + Len(kw) - 1) = kw

(* String.prototype.startsWith *)
StartsWith(s, kw) == Len(s) >= Len(kw) /\ SubSeq(s, 1, Len(kw)) = kw

-----------------------------------------------------------------------------
(* parser/statusUtils.ts *)

(* The literals of normalizeStatus, as the source file spells them.  The   *)
(* two check marks and the arrows are stored in statusUtils.ts as the      *)
(* Windows-1252 reading of their UTF-8 bytes: three (four) characters      *)
(* each, none of which is the emoji's own code point.                      *)
LitCheckMark      == <<"U+00E2", "U+0153", "U+201C">>
LitHeavyCheckMark == <<"U+00E2", "U+0153", "U+2026">>
LitArrows         == <<"U+00F0", "U+0178", "U+201D", "U+201E">>

(* The emoji themselves, as planParser.ts and plan documents spell them *)
EmojiCheckMark      == <<"U+2713">>
EmojiHeavyCheckMark == <<"U+2705">>
EmojiArrows         == <<"U+1F504">>

normalizeStatus(raw) ==
  LET s == Trim(ToLower(IF Falsy(raw) THEN <<>> ELSE raw))
  IN  IF \/ Includes(s, <<"complete">>)
         \/ Includes(s, <<"done">>)
         \/ Includes(s, LitCheckMark)
         \/ Includes(s, LitHeavyCheckMark)
        THEN "completed"
      ELSE IF \/ Includes(s, <<"progress">>)
              \/ Includes(s, <<"active">>)
              \/ Includes(s, <<"wip">>)
              \/ Includes(s, LitArrows)
        THEN "in-progress"
      ELSE "pending"

calculatePlanStatusNoProgress(phases) ==
  IF Len(phases) = 0 THEN "pending"
  ELSE IF \A i \in 1..Len(phases) : phases[i].status = "completed"
    THEN "completed"
  ELSE IF \E i \in 1..Len(phases) : phases[i].status = "completed"
    THEN "in-progress"
  ELSE "pending"

calculatePlanStatus(phases) ==
  IF Len(phases) = 0 THEN "pending"
  ELSE IF \A i \in 1..Len(phases) : phases[i].status = "completed"
    THEN "completed"
  ELSE LET hasInProgress ==
             \E i \in 1..Len(phases) : phases[i].status = "in-progress"
           hasCompleted ==
             \E i \in 1..Len(phases) : phases[i].status = "completed"
       IN  IF hasInProgress \/ hasCompleted THEN "in-progress"
           ELSE "pending"

-----------------------------------------------------------------------------
(* Numbers in text *)

Digits == {"0", "1", "2", "3", "4", "5", "6", "7", "8", "9"}

DigitVal(a) ==
  CASE a = "0" -> 0 [] a = "1" -> 1 [] a = "2" -> 2 [] a = "3" -> 3
    [] a = "4" -> 4 [] a = "5" -> 5 [] a = "6" -> 6 [] a = "7" -> 7
    [] a = "8" -> 8 [] a = "9" -> 9

DigitAtom(n) == CHOOSE a \in Digits : DigitVal(a) = n

(* parseInt(digits, 10) *)
RECURSIVE ParseInt(_)
ParseInt(ds) ==
  IF ds = <<>> THEN 0
  ELSE ParseInt(SubSeq(ds, 1, Len(ds) - 1)) * 10 + DigitVal(ds[Len(ds)])

(* String(n) for n >= 0, as in the template `Phase ${n}` *)
RECURSIVE IntToStr(_)
IntToStr(n) ==
  IF n < 10 THEN <<DigitAtom(n)>>
  ELSE IntToStr(n \div 10) \o <<DigitAtom(n % 10)>>

Min(S) == CHOOSE x \in S : \A y \in S : x <= y

(* index of the first occurrence of atom a in s at or after from; 0 if none *)
FirstIdx(s, a, from) ==
  LET hits == {i \in from..Len(s) : s[i] = a}
  IN  IF hits = {} THEN 0 ELSE Min(hits)

(* /(\d+)/.exec(s): the first maximal run of digits, <<>> when none *)
FirstDigits(s) ==
  LET starts == {i \in 1..Len(s) : s[i] \in Digits}
  IN  IF starts = {} THEN <<>>
      ELSE LET b == Min(starts)
               stops == {j \in b..Len(s) : j = Len(s) \/ s[j + 1] \notin Digits}
           IN  SubSeq(s, b, Min(stops))

(* /^\d+$/.test(s) *)
AllDigits(s) == s # <<>> /\ \A i \in 1..Len(s) : s[i] \in Digits

(* The markdown link /\[([^\]]+)\]\(([^)]+)\)/ anchored at position i: the *)
(* index of its closing parenthesis, 0 when no link starts at i.  j is the  *)
(* index of the first "]" after i, k of the first ")" after the "(".         *)
LinkCloseParen(j, k) == IF k < j + 3 THEN 0 ELSE k

LinkCloseBracket(s, i, j) ==
  IF j < i + 2 \/ j + 1 > Len(s) \/ s[j + 1] # "(" THEN 0
  ELSE LinkCloseParen(j, FirstIdx(s, ")", j + 2))

LinkEndAt(s, i) ==
  IF i > Len(s) \/ s[i] # "[" THEN 0
  ELSE LinkCloseBracket(s, i, FirstIdx(s, "]", i + 1))

NoLinkMatch ==
  [ok |-> FALSE, text |-> <<>>, path |-> <<>>, from |-> 0, to |-> 0]

LinkMatchFrom(s, i, j, k) ==
  [ok |-> TRUE, text |-> SubSeq(s, i + 1, j - 1),
   path |-> SubSeq(s, j + 2, k - 1), from |-> i, to |-> k]

LinkMatchAt(s, i) == LinkMatchFrom(s, i, FirstIdx(s, "]", i + 1), LinkEndAt(s, i))

LinkMatchAmong(s, starts) ==
  IF starts = {} THEN NoLinkMatch ELSE LinkMatchAt(s, Min(starts))

(* /\[([^\]]+)\]\(([^)]+)\)/.exec(s): the leftmost link of s *)
LinkMatch(s) == LinkMatchAmong(s, {i \in 1..Len(s) : LinkEndAt(s, i) # 0})

(* s.replace(/\*\*/g, '') *)
IsNotBoldMark(a) == a # "**"
RemoveBold(s) == SelectSeq(s, IsNotBoldMark)

(* s.replace(/\[([^\]]+)\]\([^)]+\)/g, '$1') *)
RECURSIVE ReplaceLinks(_)
ReplaceMatch(s, m) ==
  IF ~m.ok THEN s
  ELSE SubSeq(s, 1, m.from - 1) \o m.text
         \o ReplaceLinks(SubSeq(s, m.to + 1, Len(s)))

ReplaceLinks(s) == ReplaceMatch(s, LinkMatch(s))

(* path.resolve(dir, p): an absolute p stands, a relative one is joined to  *)
(* dir with its leading "./" dropped.                                       *)
PathResolve(dir, p) ==
  IF p # <<>> /\ p[1] = "/" THEN p
  ELSE IF p # <<>> /\ p[1] = "./" THEN dir \o <<"/">> \o Tail(p)
  ELSE dir \o <<"/">> \o p

(* path.dirname(p): p without its last "/" and file name *)
PathDirname(p) ==
  LET slashes == {i \in 1..Len(p) : p[i] = "/"}
  IN  IF slashes = {} THEN <<".">>
      ELSE SubSeq(p, 1, (CHOOSE i \in slashes : \A j \in slashes : j <= i) - 1)

-----------------------------------------------------------------------------
(* Documents.  A file's text is a sequence of lines; a line is kept by its  *)
(* syntactic shape and the texts that stand at the shape's variable places: *)
(*   row       | cells[1] | cells[2] | ... |      (cells as written)        *)
(*   numbered  <num>. **<name>** ... - <val>      (val: after the 1st dash) *)
(*   heading   ### Phase <num><sep><name>                                   *)
(*   status    - Status:<val>                                               *)
(*   checkbox  - [<mark>] **[(Phase )<num><name>](<path>)**<sep>            *)
(*   bold      **<name>:** <val>                                            *)
(*   blank     n empty lines                                                *)
(*   text      prose with none of the shapes above                          *)

MkLine(k, cells, num, sep, name, val, path, n) ==
  [k |-> k, cells |-> cells, num |-> num, sep |-> sep, name |-> name,
   val |-> val, path |-> path, n |-> n]

Row(cells)                 == MkLine("row", cells, <<>>, <<>>, <<>>, <<>>, <<>>, 1)
Numbered(num, name, val)   == MkLine("numbered", <<>>, num, <<>>, name, val, <<>>, 1)
Heading(num, sep, name)    == MkLine("heading", <<>>, num, sep, name, <<>>, <<>>, 1)
StatusLine(val)            == MkLine("status", <<>>, <<>>, <<>>, <<>>, val, <<>>, 1)
Checkbox(mark, num, name, path) ==
  MkLine("checkbox", <<>>, num, <<>>, name, <<mark>>, path, 1)
CheckboxThen(mark, num, name, path, rest) ==
  MkLine("checkbox", <<>>, num, rest, name, <<mark>>, path, 1)
Bold(name, val)            == MkLine("bold", <<>>, <<>>, <<>>, name, val, <<>>, 1)
Blank(n)                   == MkLine("blank", <<>>, <<>>, <<>>, <<>>, <<>>, <<>>, n)
TextLine                   == MkLine("text", <<>>, <<>>, <<>>, <<>>, <<>>, <<>>, 1)

(* line.includes('|') *)
HasPipe(line) == line.k = "row"

(* A phase record (types.ts PhaseData) *)
Phase(num, name, status, file, linkText) ==
  [phase |-> num, name |-> name, status |-> status, file |-> file,
   linkText |-> linkText, effort |-> Undefined]

-----------------------------------------------------------------------------
(* parser/planParser.ts *)

STATUS_KEYWORDS ==
  { <<"pending">>, <<"in", "-", "progress">>, <<"in", " ", "progress">>,
    <<"complete", "d">>, <<"complete">>, <<"done">>, <<"cancelled">>,
    <<"canceled">>, <<"todo">>, <<"wip">>, <<"planned">>,
    <<"not", " ", "started">>, <<"not", "-", "started">>,
    <<"U+2705">>, <<"U+23F3">>, <<"U+1F504">>, <<"U+274C">>, <<"U+25CB">>,
    <<"U+27F3">>, <<"U+2713">> }

isValidStatus(text) ==
  LET lower == Trim(ToLower(text))
  IN  \E kw \in STATUS_KEYWORDS : Includes(lower, kw)

(* Array.prototype.findIndex, 0-based, -1 when no element passes *)
FindIndex(cols, P(_)) ==
  LET hits == {i \in 1..Len(cols) : P(cols[i])}
  IN  IF hits = {} THEN -1 ELSE Min(hits) - 1

(* cols[idx] of a JavaScript array: undefined outside the array *)
At(cols, idx) ==
  IF idx >= 0 /\ idx < Len(cols) THEN cols[idx + 1] ELSE Undefined

IsNonEmpty(c) == c # <<>>

(* line.split('|').map(c => c.trim()).filter(c => c) *)
DataCols(line) ==
  SelectSeq([i \in 1..Len(line.cells) |-> Trim(line.cells[i])], IsNonEmpty)

(* line.split('|').map(c => c.trim().toLowerCase()).filter(c => c) *)
HeaderCols(line) ==
  SelectSeq([i \in 1..Len(line.cells) |-> ToLower(Trim(line.cells[i]))],
            IsNonEmpty)

IsStatusHeader(c)    == c = <<"status">> \/ Includes(c, <<"status">>)
IsNumberHeader(c)    == c = <<"#">> \/ c = <<"order">>
IsPhaseNameHeader(c) == c = <<"phase">> \/ c = <<"phase", " ", "name">>
IsNameHeader(c)      ==
  c = <<"name">> \/ c = <<"title">> \/ c = <<"phase", " ", "name">>
IsDescHeader(c)      == c = <<"description">> \/ c = <<"desc">>
IsLinkHeader(c)      == c = <<"link">> \/ c = <<"file">>

(* Step 1 of parseTableStartingFrom: the header row and its column indices. *)
(* headerIndex is the 0-based index of the first line at or after startLine *)
(* that has a pipe and a cell containing "status"; -1 when there is none.   *)
TableHeader(lines, startLine) ==
  LET cand == {i \in startLine..(Len(lines) - 1) :
                 /\ HasPipe(lines[i + 1])
                 /\ FindIndex(HeaderCols(lines[i + 1]), IsStatusHeader) # -1}
  IN  IF cand = {}
        THEN [headerIndex |-> -1, statusColIndex |-> -1, phaseColIndex |-> -1,
              nameColIndex |-> -1, descColIndex |-> -1, linkColIndex |-> -1]
      ELSE LET h    == Min(cand)
               cols == HeaderCols(lines[h + 1])
               numberColIndex    == FindIndex(cols, IsNumberHeader)
               phaseNameColIndex == FindIndex(cols, IsPhaseNameHeader)
               both == numberColIndex # -1 /\ phaseNameColIndex # -1
           IN  [headerIndex    |-> h,
                statusColIndex |-> FindIndex(cols, IsStatusHeader),
                phaseColIndex  |->
                  IF both THEN numberColIndex
                  ELSE IF phaseNameColIndex # -1 THEN phaseNameColIndex
                  ELSE numberColIndex,
                nameColIndex   |->
                  IF both THEN phaseNameColIndex
                  ELSE FindIndex(cols, IsNameHeader),
                descColIndex   |-> FindIndex(cols, IsDescHeader),
                linkColIndex   |-> FindIndex(cols, IsLinkHeader)]

(* A scan that gives up at a table it skips (ruled out by C14) *)
SkipToEnd(lines, nextLine) == Len(lines)

(* A scan that resumes at the header of the table it skips (ruled out by  *)
(* C29)                                                                   *)
ResumeAtHeader(lines, nextLine) == nextLine - 1

(* The first line index after the table that starts at headerIndex *)
RECURSIVE SkipTable(_, _)
SkipTable(lines, nextLine) ==
  IF nextLine < Len(lines) /\ HasPipe(lines[nextLine + 1])
    THEN SkipTable(lines, nextLine + 1)
  ELSE nextLine

(* line.includes('---') || line.includes('===') *)
IsSeparatorRow(line) ==
  \E i \in 1..Len(line.cells) :
    Includes(line.cells[i], <<"---">>) \/ Includes(line.cells[i], <<"===">>)

(* The first cell of the row holding a link whose target contains "phase-" *)
(* (lines 421-431): its match, NoLinkMatch when the row has no such cell.   *)
IsPhaseLink(m) == m.ok /\ Includes(m.path, <<"phase-">>)

PhaseLinkAmong(cols, hits) ==
  IF hits = {} THEN NoLinkMatch ELSE LinkMatch(cols[Min(hits)])

PhaseLinkOfRow(cols) ==
  PhaseLinkAmong(cols, {i \in 1..Len(cols) : IsPhaseLink(LinkMatch(cols[i]))})

(* The phase number of a data row (lines 368-376) *)
RowPhaseNumOf(digits, count) ==
  IF digits # <<>> THEN ParseInt(digits) ELSE count + 1

(* Rows numbered by their place alone (ruled out by C22) *)
RowPhaseNumByPlace(hdr, phaseCell, count) == count + 1

RowPhaseNum(hdr, phaseCell, count) ==
  IF hdr.phaseColIndex # -1 /\ ~Falsy(phaseCell)
    THEN RowPhaseNumOf(FirstDigits(phaseCell), count)
  ELSE count + 1

(* The name taken from the phase cell (lines 388-401) *)
PhaseCellName(phaseCell, m) ==
  IF m.ok THEN m.text
  ELSE IF ~AllDigits(phaseCell) THEN phaseCell
  ELSE <<>>

(* The raw name of a data row (lines 380-402) *)
RowRawName(hdr, phaseCell, descCell, nameCell) ==
  IF hdr.descColIndex # -1 /\ ~Falsy(descCell) THEN descCell
  ELSE IF hdr.nameColIndex # -1 /\ ~Falsy(nameCell) THEN nameCell
  ELSE IF hdr.phaseColIndex # -1 /\ ~Falsy(phaseCell)
    THEN PhaseCellName(phaseCell, LinkMatch(phaseCell))
  ELSE <<>>

(* name || `Phase ${phaseNum}` (line 409) *)
NameOrDefault(name, phaseNum) ==
  IF name = <<>> THEN <<"Phase", " ">> \o IntToStr(phaseNum) ELSE name

(* The link of the link column (lines 415-422) *)
RowColumnLink(hdr, linkCell) ==
  IF hdr.linkColIndex # -1 /\ ~Falsy(linkCell) THEN LinkMatch(linkCell)
  ELSE NoLinkMatch

(* The link a row ends with: a phase link in any cell wins over the link  *)
(* column's link.                                                          *)
RowLink(anyLink, colLink) == IF anyLink.ok THEN anyLink ELSE colLink

(* phases.push({...}) (lines 435-441) *)
RowPush(phaseNum, name, status, link, dir, planFilePath) ==
  Phase(phaseNum, Trim(name), status,
        IF link.ok THEN PathResolve(dir, link.path) ELSE planFilePath,
        Trim(IF link.ok THEN link.text ELSE name))

RowNamed(cols, hdr, phaseNum, dir, planFilePath) ==
  RowPush(phaseNum,
          NameOrDefault(
            ReplaceLinks(RemoveBold(
              RowRawName(hdr, At(cols, hdr.phaseColIndex),
                         At(cols, hdr.descColIndex),
                         At(cols, hdr.nameColIndex)))),
            phaseNum),
          normalizeStatus(At(cols, hdr.statusColIndex)),
          RowLink(PhaseLinkOfRow(cols),
                  RowColumnLink(hdr, At(cols, hdr.linkColIndex))),
          dir, planFilePath)

(* The phase a data row yields (lines 368-442), given the phases so far *)
RowPhase(cols, hdr, count, dir, planFilePath) ==
  RowNamed(cols, hdr, RowPhaseNum(hdr, At(cols, hdr.phaseColIndex), count),
           dir, planFilePath)

(* Step 2 of parseTableStartingFrom: the data rows from line i on *)
RECURSIVE ParseRows(_, _, _, _, _, _)
ParseRows(lines, i, phases, hdr, dir, planFilePath) ==
  IF i >= Len(lines) THEN [phases |-> phases, nextScanLine |-> Len(lines)]
  ELSE LET line == lines[i + 1]
           cols == DataCols(line)
       IN  IF ~HasPipe(line) THEN [phases |-> phases, nextScanLine |-> i + 1]
           ELSE IF \/ IsSeparatorRow(line)
                   \/ Len(cols) <= hdr.statusColIndex
                   \/ ~isValidStatus(cols[hdr.statusColIndex + 1])
             THEN ParseRows(lines, i + 1, phases, hdr, dir, planFilePath)
           ELSE ParseRows(lines, i + 1,
                          Append(phases,
                                 RowPhase(cols, hdr, Len(phases), dir,
                                          planFilePath)),
                          hdr, dir, planFilePath)

parseTableStartingFrom(lines, startLine, dir, planFilePath) ==
  LET hdr == TableHeader(lines, startLine)
  IN  IF hdr.headerIndex = -1 \/ hdr.statusColIndex = -1
        THEN [phases |-> <<>>, nextScanLine |-> Len(lines)]
      ELSE IF hdr.phaseColIndex = -1 /\ hdr.nameColIndex = -1
                /\ hdr.descColIndex = -1
        THEN [phases |-> <<>>,
              nextScanLine |-> SkipTable(lines, hdr.headerIndex + 1)]
      ELSE ParseRows(lines, hdr.headerIndex + 1, <<>>, hdr, dir, planFilePath)

(* Format 1: the scan loop over all tables of the document *)
RECURSIVE ScanTables(_, _, _, _)
ScanStep(lines, scanStartLine, dir, planFilePath, result) ==
  IF Len(result.phases) > 0 THEN result.phases
  ELSE IF result.nextScanLine <= scanStartLine THEN <<>>
  ELSE ScanTables(lines, result.nextScanLine, dir, planFilePath)

ScanTables(lines, scanStartLine, dir, planFilePath) ==
  IF scanStartLine >= Len(lines) THEN <<>>
  ELSE ScanStep(lines, scanStartLine, dir, planFilePath,
                  parseTableStartingFrom(lines, scanStartLine, dir,
                                         planFilePath))

parseMultiColumnTable(lines, dir, planFilePath) ==
  ScanTables(lines, 0, dir, planFilePath)

-----------------------------------------------------------------------------
(* Format 2: link-first table.  The pattern of parseLinkFirstTable (a pipe, *)
(* a link whose text is an optional "Phase" and a number, a pipe, a cell, a *)
(* pipe, a cell) is run over the whole text.  On a row it matches at a cell *)
(* that is                                                                  *)
(* exactly a link whose text is an optional "Phase" and a number and that   *)
(* has two cells to its right (cells are written with blanks around their   *)
(* text, so an empty cell still matches [^|]+); the search then resumes at  *)
(* the pipe that closes the status cell.  Exact for rows in which such a    *)
(* link cell is never the last or the last but one cell of its row.         *)

(* The number N of a cell of the shape [(Phase )N](path), <<>> otherwise *)
PhaseLinkText(m) ==
  IF m.ok /\ m.text # <<>> /\ m.text[1] \in {"Phase", "phase", "PHASE"}
    THEN TrimLeft(Tail(m.text))
  ELSE m.text

PhaseLinkDigits(c, m, digits) ==
  IF m.ok /\ m.from = 1 /\ m.to = Len(c) /\ AllDigits(digits) THEN digits
  ELSE <<>>

PhaseLinkIn(c, m) == PhaseLinkDigits(c, m, PhaseLinkText(m))

PhaseLinkNumber(cell) == PhaseLinkIn(Trim(cell), LinkMatch(Trim(cell)))

RECURSIVE LinkFirstCells(_, _, _)
LinkFirstCell(cells, c, dir, num) ==
  IF num = <<>> THEN LinkFirstCells(cells, c + 1, dir)
  ELSE IF ~isValidStatus(cells[c + 2])
    THEN LinkFirstCells(cells, c + 3, dir)
  ELSE <<Phase(ParseInt(num), Trim(cells[c + 1]),
               normalizeStatus(cells[c + 2]),
               PathResolve(dir, LinkMatch(Trim(cells[c])).path),
               <<"Phase", " ">> \o num)>>
         \o LinkFirstCells(cells, c + 3, dir)

LinkFirstCells(cells, c, dir) ==
  IF c + 2 > Len(cells) THEN <<>>
  ELSE LinkFirstCell(cells, c, dir, PhaseLinkNumber(cells[c]))

RECURSIVE LinkFirstLines(_, _, _)
LinkFirstLines(lines, i, dir) ==
  IF i > Len(lines) THEN <<>>
  ELSE (IF lines[i].k = "row" THEN LinkFirstCells(lines[i].cells, 1, dir)
        ELSE <<>>)
         \o LinkFirstLines(lines, i + 1, dir)

parseLinkFirstTable(lines, dir) == LinkFirstLines(lines, 1, dir)

-----------------------------------------------------------------------------
(* Format 3: numbered list with inline status.  Of a line                   *)
(*   <num>. **<name>** ... - <val>                                          *)
(* val is the text after the first dash that follows the bold name.  The    *)
(* pattern wants val to be: blanks, at most one status emoji, blanks, one   *)
(* of the keywords, and captures from the emoji to the next dash.           *)

NumberedEmoji ==
  {"U+2705", "U+23F3", "U+1F504", "U+274C", "U+25CB", "U+27F3", "U+2713"}

NumberedKeywords ==
  << <<"complete">>, <<"complete", "d">>, <<"done">>,
     <<"in", "-", "progress">>, <<"in", " ", "progress">>,
     <<"in", "progress">>, <<"pending">>, <<"wip">>, <<"todo">>,
     <<"cancelled">>, <<"not", "-", "started">>, <<"not", " ", "started">>,
     <<"not", "started">>, <<"planned">> >>

(* Length of the keyword the alternation takes at the head of s; 0 if none *)
KeywordLenAt(s) ==
  LET low  == ToLower(s)
      hits == {k \in 1..Len(NumberedKeywords) :
                 StartsWith(low, NumberedKeywords[k])}
  IN  IF hits = {} THEN 0 ELSE Len(NumberedKeywords[Min(hits)])

(* The captured status of val; Undefined when the line does not match.    *)
(* s1 is val without its leading blanks, body the text the keyword must    *)
(* start, klen the length of the keyword found there.                      *)
NumberedKept(rest, dash) ==
  IF dash = 0 THEN rest ELSE SubSeq(rest, 1, dash - 1)

NumberedCapture(s1, body, klen) ==
  IF klen = 0 THEN Undefined
  ELSE SubSeq(s1, 1, Len(s1) - Len(body)) \o SubSeq(body, 1, klen)
         \o NumberedKept(SubSeq(body, klen + 1, Len(body)),
                         FirstIdx(SubSeq(body, klen + 1, Len(body)), "-", 1))

NumberedBody(s1, afterEmoji) ==
  IF s1 # <<>> /\ s1[1] \in NumberedEmoji /\ KeywordLenAt(afterEmoji) > 0
    THEN afterEmoji
  ELSE s1

NumberedOf(s1, body) == NumberedCapture(s1, body, KeywordLenAt(body))

NumberedFrom(s1) ==
  NumberedOf(s1, NumberedBody(s1, TrimLeft(IF s1 = <<>> THEN <<>>
                                           ELSE Tail(s1))))

NumberedStatus(val) == NumberedFrom(TrimLeft(val))

NumberedLine(l, st, planFilePath) ==
  IF l.k = "numbered" /\ AllDigits(l.num) /\ l.name # <<>> /\ st # Undefined
    THEN <<Phase(ParseInt(l.num), Trim(l.name), normalizeStatus(st),
                 planFilePath, Trim(l.name))>>
  ELSE <<>>

RECURSIVE NumberedLines(_, _, _)
NumberedLines(lines, i, planFilePath) ==
  IF i > Len(lines) THEN <<>>
  ELSE NumberedLine(lines[i], NumberedStatus(lines[i].val), planFilePath)
         \o NumberedLines(lines, i + 1, planFilePath)

parseNumberedListWithStatus(lines, planFilePath) ==
  NumberedLines(lines, 1, planFilePath)

-----------------------------------------------------------------------------
(* Format 4: heading-based.  /###\s*Phase\s*(\d+)[:\s]+(.+)/i wants at      *)
(* least one separator and one more character: with nothing after the       *)
(* separators the name is the last separator itself.                        *)

HeadingMatches(l) ==
  /\ l.k = "heading"
  /\ AllDigits(l.num)
  /\ Len(l.sep) >= 1
  /\ (l.name # <<>> \/ Len(l.sep) >= 2)

HeadingName(l) == IF l.name # <<>> THEN l.name ELSE <<l.sep[Len(l.sep)]>>

(* /-\s*Status:\s*(.+)/i wants one character after the colon.  The pattern *)
(* is searched in every line, a heading line included: in the text of a     *)
(* heading it matches at the first dash that blanks, "Status", a colon and  *)
(* one more character follow.                                               *)
StatusAfterDash(r) ==
  IF Len(r) >= 3 /\ LowerAtom(r[1]) = "status" /\ r[2] = ":"
    THEN SubSeq(r, 3, Len(r))
  ELSE <<>>

StatusInText(s) ==
  LET hits == {i \in 1..Len(s) :
                 /\ s[i] = "-"
                 /\ StatusAfterDash(TrimLeft(SubSeq(s, i + 1, Len(s)))) # <<>>}
  IN  IF hits = {} THEN <<>>
      ELSE StatusAfterDash(TrimLeft(SubSeq(s, Min(hits) + 1, Len(s))))

(* The value the status pattern captures in a line, <<>> when it does not   *)
(* match                                                                    *)
StatusValue(l) ==
  IF l.k = "status" THEN l.val
  ELSE IF l.k = "heading" THEN StatusInText(l.name)
  ELSE <<>>

StatusLineMatches(l) == StatusValue(l) # <<>>

(* A status that is kept once it is set (ruled out by C21) *)
WithFirstStatus(phase, value) ==
  IF phase.status = "pending"
    THEN [phase EXCEPT !.status = normalizeStatus(value)]
  ELSE phase

(* currentPhase.status = normalizeStatus(statusMatch[1]) (line 608) *)
WithStatus(phase, value) == [phase EXCEPT !.status = normalizeStatus(value)]

(* The phase of a heading line (lines 592-599), with the status of the      *)
(* line's own text when the status pattern matches in it (lines 603-609)    *)
HeadingPhase(l, planFilePath) ==
  Phase(ParseInt(l.num), Trim(HeadingName(l)), "pending", planFilePath,
        <<"Phase", " ">> \o IntToStr(ParseInt(l.num)))

HeadingStarted(l, phase) ==
  IF StatusLineMatches(l) THEN WithStatus(phase, StatusValue(l)) ELSE phase

(* The loop of parseHeadingBased: cur is currentPhase (<<>> for null, a     *)
(* one-element sequence otherwise).                                         *)
RECURSIVE HeadingLines(_, _, _, _, _)
HeadingLines(lines, i, phases, cur, planFilePath) ==
  IF i > Len(lines) THEN phases \o cur
  ELSE LET l == lines[i]
       IN  IF HeadingMatches(l)
             THEN HeadingLines(lines, i + 1, phases \o cur,
                    <<HeadingStarted(l, HeadingPhase(l, planFilePath))>>,
                    planFilePath)
           ELSE IF cur # <<>> /\ StatusLineMatches(l)
             THEN HeadingLines(lines, i + 1, phases,
                    <<WithStatus(cur[1], StatusValue(l))>>,
                    planFilePath)
           ELSE HeadingLines(lines, i + 1, phases, cur, planFilePath)

parseHeadingBased(lines, planFilePath) ==
  HeadingLines(lines, 1, <<>>, <<>>, planFilePath)

-----------------------------------------------------------------------------
(* Format 5: checkbox list.  Of a line                                      *)
(*   - [<mark>] **[(Phase )<num><name>](<path>)**                           *)
(* val holds the mark and name the text between the number and "]".         *)

(* name with the separators [:\s]* taken off its head *)
RECURSIVE StripSeparators(_)
StripSeparators(s) ==
  IF s # <<>> /\ s[1] \in {":", " "} THEN StripSeparators(Tail(s)) ELSE s

(* The status of a box read case-sensitively (ruled out by C18) *)
CheckboxStatusExact(checked) ==
  IF checked = <<"x">> THEN "completed" ELSE "pending"

(* checked.toLowerCase() === 'x' ? 'completed' : 'pending' (line 669) *)
CheckboxStatus(checked) ==
  IF ToLower(checked) = <<"x">> THEN "completed" ELSE "pending"

RECURSIVE CheckboxLines(_, _, _)
CheckboxLines(lines, i, dir) ==
  IF i > Len(lines) THEN <<>>
  ELSE LET l == lines[i]
           name == Trim(StripSeparators(l.name))
           label == IF name = <<>> THEN <<"Phase", " ">> \o l.num ELSE name
       IN  (IF l.k = "checkbox" /\ AllDigits(l.num) /\ l.path # <<>>
                 /\ l.val \in {<<"x">>, <<"X">>, <<" ">>}
              THEN <<Phase(ParseInt(l.num), label,
                           CheckboxStatus(l.val),
                           PathResolve(dir, l.path), label)>>
            ELSE <<>>)
             \o CheckboxLines(lines, i + 1, dir)

parseCheckboxList(lines, dir, planFilePath) == CheckboxLines(lines, 1, dir)

-----------------------------------------------------------------------------
(* Files.  A file's content is its YAML frontmatter block and the lines     *)
(* after it.  fm.kind is "none" (the text does not open with the            *)
(* delimiter), "malformed" (gray-matter throws), "empty" (a block with no   *)
(* key) or "data" (the parsed keys; Undefined marks an absent key).         *)

FrontmatterP(kind, status, effort, priority) ==
  [kind |-> kind, status |-> status, effort |-> effort, priority |-> priority]

Frontmatter(kind, status, effort) ==
  FrontmatterP(kind, status, effort, Undefined)

NoFrontmatter == Frontmatter("none", Undefined, Undefined)

Doc(fm, lines) == [fm |-> fm, lines |-> lines]

(* Number of text lines the frontmatter block takes *)
FmSize(fm) ==
  IF fm.kind = "none" THEN 0
  ELSE 2 + (IF fm.kind = "data" /\ fm.status # Undefined THEN 1 ELSE 0)
         + (IF fm.kind = "data" /\ fm.effort # Undefined THEN 1 ELSE 0)
         + (IF fm.kind = "data" /\ fm.priority # Undefined THEN 1 ELSE 0)
         + (IF fm.kind = "malformed" THEN 1 ELSE 0)

(* 0-based index, in content.split('\n'), of the first text line of lines[i] *)
RECURSIVE LinesBefore(_, _)
LinesBefore(lines, i) ==
  IF i <= 1 THEN 0 ELSE LinesBefore(lines, i - 1) + lines[i - 1].n

LineIndex(doc, i) == FmSize(doc.fm) + LinesBefore(doc.lines, i)

-----------------------------------------------------------------------------
(* parser/phaseMetadataExtractor.ts *)

INLINE_HEADER_LINES == 20

(* PhaseFileMetadata | null: ok is FALSE for null *)
Metadata(status, effort) == [ok |-> TRUE, status |-> status, effort |-> effort]
NoMetadata == [ok |-> FALSE, status |-> "pending", effort |-> Undefined]

(* The loop over the two-column rows of the file: found, status, effort.    *)
(* Exact for files whose table rows have exactly two cells.                 *)
RECURSIVE OverviewRows(_, _, _)
OverviewRows(lines, i, acc) ==
  IF i > Len(lines) THEN acc
  ELSE LET l == lines[i]
           field == ToLower(Trim(l.cells[1]))
           value == Trim(l.cells[2])
       IN  IF l.k # "row" \/ Len(l.cells) # 2
             THEN OverviewRows(lines, i + 1, acc)
           ELSE IF field = <<"field">> \/ Includes(field, <<"---">>)
             THEN OverviewRows(lines, i + 1, acc)
           ELSE IF field = <<"implementation", " ", "status">>
                     \/ field = <<"status">>
             THEN OverviewRows(lines, i + 1,
                    [acc EXCEPT !.ok = TRUE, !.status = normalizeStatus(value)])
           ELSE IF field = <<"effort">>
             THEN OverviewRows(lines, i + 1, [acc EXCEPT !.effort = value])
           ELSE OverviewRows(lines, i + 1, acc)

extractFromOverviewTable(content) ==
  LET acc == OverviewRows(content.lines, 1, NoMetadata)
  IN  IF ~acc.ok THEN NoMetadata ELSE acc

(* The value of a **key**: value pair: up to the next pipe, asterisk or     *)
(* line end; Undefined when the line has no character to take (exact when   *)
(* such a line is followed by an empty line or the end of the text).        *)
InlineValue(l) ==
  LET stops == {j \in 1..Len(l.val) : l.val[j] \in {"|", "*", "**"}}
      raw   == IF stops = {} THEN l.val ELSE SubSeq(l.val, 1, Min(stops) - 1)
  IN  IF raw = <<>> THEN Undefined ELSE Trim(raw)

RECURSIVE InlinePairs(_, _, _)
InlinePairs(content, i, acc) ==
  IF i > Len(content.lines) THEN acc
  ELSE LET l == content.lines[i]
           field == ToLower(Trim(l.name))
           value == InlineValue(l)
       IN  IF l.k # "bold" \/ LineIndex(content, i) >= INLINE_HEADER_LINES
                \/ l.name = <<>> \/ value = Undefined
             THEN InlinePairs(content, i + 1, acc)
           ELSE IF field = <<"status">>
             THEN InlinePairs(content, i + 1,
                    [acc EXCEPT !.ok = TRUE, !.status = normalizeStatus(value)])
           ELSE IF field = <<"effort">>
             THEN InlinePairs(content, i + 1, [acc EXCEPT !.effort = value])
           ELSE InlinePairs(content, i + 1, acc)

extractFromInlineMetadata(content) ==
  LET acc == InlinePairs(content, 1, NoMetadata)
  IN  IF ~acc.ok THEN NoMetadata ELSE acc

(* extractFromFrontmatter of the phase file *)
extractPhaseFrontmatter(content) ==
  IF content.fm.kind # "data" \/ Falsy(content.fm.status) THEN NoMetadata
  ELSE Metadata(normalizeStatus(content.fm.status), content.fm.effort)

(* The formats tried with inline metadata before the overview table (ruled *)
(* out by C23)                                                             *)
PhaseMetadataInlineFirst(content) ==
  IF extractFromInlineMetadata(content).ok
    THEN extractFromInlineMetadata(content)
  ELSE IF extractFromOverviewTable(content).ok
    THEN extractFromOverviewTable(content)
  ELSE extractPhaseFrontmatter(content)

(* The three formats of extractPhaseMetadata, applied to the content read *)
PhaseMetadataOf(content) ==
  IF extractFromOverviewTable(content).ok
    THEN extractFromOverviewTable(content)
  ELSE IF extractFromInlineMetadata(content).ok
    THEN extractFromInlineMetadata(content)
  ELSE extractPhaseFrontmatter(content)

(* The object enrichment returns for a phase whose file gave metadata *)
EnrichKeepStatus(phase, metadata) ==
  [phase EXCEPT !.effort = IF Falsy(metadata.effort) THEN phase.effort
                           ELSE metadata.effort]

EnrichedPhase(phase, metadata) ==
  [phase EXCEPT !.status = metadata.status,
                !.effort = IF Falsy(metadata.effort) THEN phase.effort
                           ELSE metadata.effort]

(* phase.file && phase.file.includes('phase-') *)
EnrichEligible(phase) ==
  ~Falsy(phase.file) /\ Includes(phase.file, <<"phase-">>)

-----------------------------------------------------------------------------
(* parser/metadataExtractor.ts *)

HEADER_LINES == 50

normalizeMetadataStatus(status) ==
  IF Falsy(status) THEN "pending"
  ELSE LET s == Trim(ToLower(status))
       IN  IF s \in {<<"complete">>, <<"complete", "d">>, <<"done">>}
             THEN "completed"
           ELSE IF s \in {<<"in", "-", "progress">>, <<"in", "_", "progress">>,
                          <<"active">>, <<"wip">>}
             THEN "in-progress"
           ELSE IF s \in {<<"cancelled">>, <<"canceled">>} THEN "cancelled"
           ELSE "pending"

(* A Partial<PlanData> | null, as far as the status goes: ok is FALSE for   *)
(* null, status is "" (falsy) for an absent property.                       *)
Partial(ok, status) == [ok |-> ok, status |-> status]

(* extractFromFrontmatter of the plan file *)
extractFromFrontmatter(content) ==
  IF content.fm.kind # "data" THEN Partial(FALSE, "")
  ELSE Partial(TRUE, normalizeMetadataStatus(content.fm.status))

(* The text the status pattern of extractFromHeader captures on a bold      *)
(* line: up to the first parenthesis; Undefined when the line does not      *)
(* match (no label "Status" or "Status:", or no character to take).         *)
HeaderStatusValue(l) ==
  LET label == ToLower(l.name)
      paren == FirstIdx(l.val, "(", 1)
      raw   == IF paren = 0 THEN l.val ELSE SubSeq(l.val, 1, paren - 1)
  IN  IF l.k # "bold" THEN Undefined
      ELSE IF label # <<"status">> /\ label # <<"status", ":">> THEN Undefined
      ELSE IF raw = <<>> THEN Undefined
      ELSE Trim(raw)

(* extractFromHeader: the first match within the first 50 lines *)
extractFromHeader(content) ==
  LET hits == {i \in 1..Len(content.lines) :
                 /\ LineIndex(content, i) < HEADER_LINES
                 /\ HeaderStatusValue(content.lines[i]) # Undefined}
  IN  IF hits = {} THEN Partial(TRUE, "")
      ELSE Partial(TRUE, normalizeMetadataStatus(
                           HeaderStatusValue(content.lines[Min(hits)])))

(* String.prototype.toUpperCase *)
UpperMap ==
  [a \in {"p", "high", "High", "critical", "Critical", "medium", "Medium",
          "normal", "Normal", "low", "Low", "urgent", "Priority", "priority"}
     |-> CASE a = "p" -> "P"
           [] a \in {"high", "High"} -> "HIGH"
           [] a \in {"critical", "Critical"} -> "CRITICAL"
           [] a \in {"medium", "Medium"} -> "MEDIUM"
           [] a \in {"normal", "Normal"} -> "NORMAL"
           [] a \in {"low", "Low"} -> "LOW"
           [] a = "urgent" -> "URGENT"
           [] a \in {"Priority", "priority"} -> "PRIORITY"]

UpperAtom(a) == IF a \in DOMAIN UpperMap THEN UpperMap[a] ELSE a

ToUpper(s) == [i \in 1..Len(s) |-> UpperAtom(s[i])]

(* p.match(/^P[0-3]$/) *)
IsDirectPriority(p) ==
  Len(p) = 2 /\ p[1] = "P" /\ p[2] \in {"0", "1", "2", "3"}

(* normalizePriority; null is Null *)
PriorityOf(p) ==
  IF p \in {<<"P", "1">>, <<"HIGH">>, <<"CRITICAL">>} THEN <<"P", "1">>
  ELSE IF p \in {<<"P", "2">>, <<"MEDIUM">>, <<"NORMAL">>} THEN <<"P", "2">>
  ELSE IF p \in {<<"P", "3">>, <<"LOW">>} THEN <<"P", "3">>
  ELSE IF IsDirectPriority(p) THEN p
  ELSE Null

normalizePriority(priority) ==
  IF Falsy(priority) THEN Null ELSE PriorityOf(Trim(ToUpper(priority)))

(* priority of extractFromFrontmatter; Undefined when it returns null *)
FrontmatterPriority(content) ==
  IF content.fm.kind # "data" THEN Undefined
  ELSE normalizePriority(content.fm.priority)

(* The text the priority pattern of extractFromHeader captures on a bold    *)
(* line: P0..P3 or High, Medium, Low in any case at the head of the value;  *)
(* Undefined when the line does not match.                                  *)
PriorityCapture(s) ==
  IF Len(s) >= 2 /\ IsDirectPriority(ToUpper(SubSeq(s, 1, 2)))
    THEN SubSeq(s, 1, 2)
  ELSE IF s # <<>> /\ ToUpper(<<s[1]>>) \in {<<"HIGH">>, <<"MEDIUM">>, <<"LOW">>}
    THEN <<s[1]>>
  ELSE Undefined

HeaderPriorityValue(l) ==
  IF l.k # "bold" THEN Undefined
  ELSE IF ToUpper(l.name) \notin {<<"PRIORITY">>, <<"PRIORITY", ":">>}
    THEN Undefined
  ELSE PriorityCapture(TrimLeft(IF l.val # <<>> /\ l.val[1] = ":"
                                 THEN Tail(l.val) ELSE l.val))

(* priority of extractFromHeader; Undefined when the pattern does not match *)
HeaderPriority(content) ==
  LET hits == {i \in 1..Len(content.lines) :
                 /\ LineIndex(content, i) < HEADER_LINES
                 /\ HeaderPriorityValue(content.lines[i]) # Undefined}
  IN  IF hits = {} THEN Undefined
      ELSE normalizePriority(HeaderPriorityValue(content.lines[Min(hits)]))

(* frontmatter?.priority || headerMeta.priority || null *)
PlanPriority(fromFrontmatter, fromHeader) ==
  IF ~Falsy(fromFrontmatter) THEN fromFrontmatter
  ELSE IF ~Falsy(fromHeader) THEN fromHeader
  ELSE Null

(* Math.round((completedCount / totalCount) * 100) *)
RoundPercent(completedCount, totalCount) ==
  (200 * completedCount + totalCount) \div (2 * totalCount)

CountCompleted(phases) ==
  Cardinality({i \in 1..Len(phases) : phases[i].status = "completed"})

(* frontmatter?.status || headerMeta.status || calculatedStatus *)
PlanStatusOf(frontmatter, headerMeta, calculatedStatus) ==
  IF frontmatter.ok /\ frontmatter.status # "" THEN frontmatter.status
  ELSE IF headerMeta.status # "" THEN headerMeta.status
  ELSE calculatedStatus

PlanCountAll(phases) == Len(phases)

PlanCompletedCount(phases) == CountCompleted(phases)

(* Steps 3-5 of extractPlanData: the PlanData built from the content read   *)
(* by extractPlanData and the phases parsePlanTable returned.               *)
PlanData(planPath, content, stats, phases) ==
  LET frontmatter      == extractFromFrontmatter(content)
      headerMeta       == extractFromHeader(content)
      completedCount   == PlanCompletedCount(phases)
      totalCount       == Len(phases)
      calculatedStatus == calculatePlanStatus(phases)
  IN  [path           |-> planPath,
       status         |-> PlanStatusOf(frontmatter, headerMeta,
                                       calculatedStatus),
       phases         |-> phases,
       completedCount |-> completedCount,
       totalCount     |-> totalCount,
       percentage     |-> IF totalCount > 0
                            THEN RoundPercent(completedCount, totalCount)
                          ELSE 0,
       lastModified   |-> stats,
       priority       |-> PlanPriority(FrontmatterPriority(content),
                                       HeaderPriority(content))]

-----------------------------------------------------------------------------
(* parsePlanTable, lines 107-153: the five formats in order, the first      *)
(* non-empty result is the one handed on.                                   *)

FirstNonEmpty(f1, f2, f3, f4, f5) ==
  IF Len(f1) > 0 THEN f1
  ELSE IF Len(f2) > 0 THEN f2
  ELSE IF Len(f3) > 0 THEN f3
  ELSE IF Len(f4) > 0 THEN f4
  ELSE f5

ParsePhasesLinkFirstFirst(content, planFilePath) ==
  FirstNonEmpty(
    parseLinkFirstTable(content.lines, PathDirname(planFilePath)),
    parseMultiColumnTable(content.lines, PathDirname(planFilePath),
                          planFilePath),
    parseNumberedListWithStatus(content.lines, planFilePath),
    parseHeadingBased(content.lines, planFilePath),
    parseCheckboxList(content.lines, PathDirname(planFilePath), planFilePath))

ParsePhases(content, planFilePath) ==
  FirstNonEmpty(
    parseMultiColumnTable(content.lines, PathDirname(planFilePath),
                          planFilePath),
    parseLinkFirstTable(content.lines, PathDirname(planFilePath)),
    parseNumberedListWithStatus(content.lines, planFilePath),
    parseHeadingBased(content.lines, planFilePath),
    parseCheckboxList(content.lines, PathDirname(planFilePath), planFilePath))

(* Promise.all over the enrichment callbacks: the array of their values,    *)
(* at the callbacks' own indices (order is the order of completion).        *)
CollectByCompletion(values, order) ==
  [k \in 1..Len(order) |-> values[order[k]]]

CollectEnriched(values, order) == values

-----------------------------------------------------------------------------
(* State *)

VARIABLES
  fs,      \* the files: path -> <<>> (no such file) or <<content>>
  dirs,    \* the directories that exist
  env,     \* number of deletions the environment may still make
  task,    \* per plan file: the run of extractPlanData / parsePlanTable
  batch,   \* the run of parsePlans or PlansProject.refresh
  pure,    \* the call of a pure function: operation, argument, result
  mtime,   \* the modification time of each plan file, as stat reports it
  ext      \* the extension around the parsers: the cached progress of the
           \* projects, the status bar, the debounce timer, refresh runs

vars == <<fs, dirs, env, task, batch, pure, mtime, ext>>

-----------------------------------------------------------------------------
(* The workspace: <plansDir>/<id>/plan.md with phase files beside it *)

PlansDir == <<"/", "ws", "/", "plans">>
PlanDirNames == {"a", "b"}
PlanDir(d) == PlansDir \o <<"/", d>>
PlanFile(d) == PlanDir(d) \o <<"/", "plan.md">>
PhaseFile(d, n) == PlanDir(d) \o <<"/", "phase-", "0", n, ".md">>

PlanPaths == {PlanFile(d) : d \in PlanDirNames}
PhasePaths == {PhaseFile(d, n) : d \in PlanDirNames, n \in {"1", "2"}}
Paths == PlanPaths \cup PhasePaths

(* What a read of path f finds *)
File(f) == IF f \in DOMAIN fs THEN fs[f] ELSE <<>>

-----------------------------------------------------------------------------
(* Bounds *)

MaxDocLines == 3       \* lines of a generated plan document
MaxTableLines == 4     \* lines of a plan document of several tables
MaxCheckboxLines == 2  \* lines of a checkbox-list plan document
MaxEnvDeletes == 1     \* files deleted while a run is in flight
MaxStatusParts == 2    \* fragments of a status text given to normalizeStatus
MaxStatusList == 4     \* phases of a list given to calculatePlanStatus
MaxHeadings == 8       \* phases of a heading-based plan document

-----------------------------------------------------------------------------
(* Texts the documents are made of *)

LinkTo(label, n) ==
  <<"[">> \o label \o <<"]", "(", "./", "phase-", "0", n, ".md", ")">>

RowHeader    == Row(<< <<"#">>, <<"Phase">>, <<"Status">>, <<"Link">> >>)
RowSeparator == Row(<< <<"---">>, <<"---">>, <<"---">>, <<"---">> >>)
RowOne       == Row(<< <<"1">>, <<"Setup">>, <<"Pending">>,
                       LinkTo(<<"Phase", " ", "1">>, "1") >>)
RowTwo       == Row(<< <<"2">>, <<"Build">>, <<"U+2705", " ", "Complete">>,
                       LinkTo(<<"Phase", " ", "2">>, "2") >>)
RowNoLink    == Row(<< <<"3">>, <<"Ship">>, <<"In", " ", "Progress">>, <<>> >>)
RowGap       == Row(<< <<"Gap">>, <<"Status">> >>)
RowLinkFirst == Row(<< LinkTo(<<"Phase", " ", "1">>, "1"), <<"Setup">>,
                       <<"Done">> >>)
LineNumbered == Numbered(<<"1">>, <<"Setup">>,
                         <<" ", "U+2705", " ", "COMPLETE", " ", "-", " ", "x">>)
LineHeading  == Heading(<<"1">>, <<":", " ">>, <<"Setup">>)
LineStatus   == StatusLine(<<" ", "In", " ", "Progress">>)
LineChecked  == Checkbox("x", <<"1">>, <<":", " ", "Setup">>,
                         <<"./", "phase-", "0", "1", ".md">>)
LineUnchecked == Checkbox(" ", <<"2">>, <<":", " ", "Build">>,
                          <<"./", "phase-", "0", "2", ".md">>)

LinePool ==
  {RowHeader, RowOne, RowTwo, RowGap, RowLinkFirst, LineNumbered,
   LineHeading, LineStatus, LineChecked, LineUnchecked, TextLine}

GeneratedDocs ==
  {Doc(NoFrontmatter, s) :
     s \in UNION {[1..n -> LinePool] : n \in 0..MaxDocLines}}

(* Plan documents whose phases link to phase files *)
LinkedDocs ==
  { Doc(NoFrontmatter, <<RowHeader, RowSeparator, RowOne, RowTwo, RowNoLink>>),
    Doc(NoFrontmatter, <<LineChecked, LineUnchecked>>),
    Doc(NoFrontmatter, <<RowLinkFirst, TextLine, LineNumbered>>) }

(* Plan documents of several tables: a table of two columns with a status   *)
(* column, a dependency graph, a phase table, prose and a numbered list     *)
RowDepends    == Row(<< <<"Phase">>, <<"Depends", " ", "On">>,
                        <<"Can", " ", "Run", " ", "Parallel", " ", "With">> >>)
RowDependsOne == Row(<< <<"Phase", " ", "1">>, <<"None">>,
                        <<"Phase", " ", "2">> >>)

TablePool ==
  {RowGap, RowDepends, RowDependsOne, RowHeader, RowOne, TextLine,
   LineNumbered}

TableDocs ==
  {Doc(NoFrontmatter, s) :
     s \in UNION {[1..n -> TablePool] : n \in 0..MaxTableLines}}

(* Plan documents whose phases are written without a name: a cell, a bold  *)
(* text or a heading that holds blanks or bold markers only                 *)
RowBlankBold   == Row(<< <<"1">>, <<"**", " ", "**">>, <<"Done">> >>)
RowEmptyBold   == Row(<< <<"2">>, <<"**", "**">>, <<"Pending">> >>)
RowLinkNoName  == Row(<< LinkTo(<<"Phase", " ", "1">>, "1"), <<>>,
                         <<"Done">> >>)
LineNumberedBlank == Numbered(<<"1">>, <<" ">>, <<" ", "DONE">>)
LineHeadingBlank  == Heading(<<"1">>, <<":", " ">>, <<>>)
LineCheckedNoName == Checkbox("x", <<"1">>, <<>>,
                              <<"./", "phase-", "0", "1", ".md">>)

(* Checkbox lists whose lines carry status keywords in the link text and   *)
(* after the link                                                          *)
LineCheckedKeyword ==
  CheckboxThen("x", <<"1">>, <<":", " ", "In", " ", "Progress">>,
               <<"./", "phase-", "0", "1", ".md">>,
               <<" ", "-", " ", "U+1F504", " ", "WIP">>)
LineUncheckedKeyword ==
  CheckboxThen(" ", <<"2">>, <<":", " ", "Done">>,
               <<"./", "phase-", "0", "2", ".md">>,
               <<" ", "U+2705", " ", "Complete">>)
LineCheckedUpper ==
  Checkbox("X", <<"3">>, <<":", " ", "Ship">>,
           <<"./", "phase-", "0", "1", ".md">>)

CheckboxPool ==
  {LineChecked, LineUnchecked, LineCheckedKeyword, LineUncheckedKeyword,
   LineCheckedUpper, TextLine}

CheckboxDocs ==
  {Doc(NoFrontmatter, s) :
     s \in UNION {[1..n -> CheckboxPool] : n \in 1..MaxCheckboxLines}}

(* Tables that mix rows with a number and rows numbered by their place *)
RowNoNumber == Row(<< <<"-">>, <<"Docs">>, <<"Done">> >>)

MixedNumberDocs ==
  { Doc(NoFrontmatter, <<RowHeader, RowSeparator, RowNoNumber, RowOne>>),
    Doc(NoFrontmatter, <<RowHeader, RowSeparator, RowTwo, RowNoNumber>>),
    Doc(NoFrontmatter, <<RowHeader, RowSeparator, RowOne, RowNoNumber>>) }

NamelessDocs ==
  { Doc(NoFrontmatter, <<RowHeader, RowSeparator, RowBlankBold>>),
    Doc(NoFrontmatter, <<RowHeader, RowSeparator, RowEmptyBold>>),
    Doc(NoFrontmatter, <<RowLinkNoName>>),
    Doc(NoFrontmatter, <<LineNumberedBlank>>),
    Doc(NoFrontmatter, <<LineHeadingBlank, LineStatus>>),
    Doc(NoFrontmatter, <<LineCheckedNoName>>) }

(* Phase files *)
PhaseTable(status) ==
  Doc(NoFrontmatter,
      << TextLine,
         Row(<< <<"Field">>, <<"Value">> >>),
         Row(<< <<"---">>, <<"---">> >>),
         Row(<< <<"Implementation", " ", "Status">>, status >>),
         Row(<< <<"Effort">>, <<"2", "h">> >>) >>)

PhaseFilePool ==
  { PhaseTable(<<"U+2705", " ", "Complete">>),
    PhaseTable(<<"In", " ", "Progress">>),
    Doc(NoFrontmatter, << Row(<< <<"Effort">>, <<"4", "h">> >>), TextLine >>),
    Doc(NoFrontmatter, << Bold(<<"Effort">>, <<" ", "1", "h", " ", "|">>),
                          Bold(<<"Status">>, <<" ", "Done">>) >>),
    Doc(NoFrontmatter, << Blank(INLINE_HEADER_LINES),
                          Bold(<<"Status">>, <<" ", "Done">>) >>),
    Doc(Frontmatter("data", <<"WIP">>, Undefined), <<TextLine>>),
    Doc(Frontmatter("data", Undefined, <<"3", "h">>), <<TextLine>>),
    Doc(Frontmatter("malformed", Undefined, Undefined), <<TextLine>>) }

(* Plan documents with metadata: frontmatter, header lines, body *)
FrontmatterPool ==
  { NoFrontmatter,
    Frontmatter("malformed", Undefined, Undefined),
    Frontmatter("empty", Undefined, Undefined),
    Frontmatter("data", Undefined, <<"2", "d">>),
    Frontmatter("data", <<"complete", "d">>, Undefined),
    Frontmatter("data", <<"Cancelled">>, Undefined),
    Frontmatter("data", <<"someday">>, Undefined),
    FrontmatterP("data", Undefined, Undefined, <<"P", "0">>),
    FrontmatterP("data", <<"WIP">>, Undefined, <<"high">>) }

HeaderPool ==
  { <<>>,
    <<Bold(<<"Status", ":">>, <<" ", "Done">>)>>,
    <<Bold(<<"Priority", ":">>, <<" ", "p", "0">>)>>,
    <<Bold(<<"Status">>, <<" ", "WIP", " ", "(", "5", "0", "%", ")">>)>>,
    <<Blank(HEADER_LINES), Bold(<<"Status", ":">>, <<" ", "Done">>)>> }

BodyPool ==
  { <<>>,
    <<RowHeader, RowSeparator, RowTwo>>,
    <<RowHeader, RowSeparator, RowOne, RowTwo, RowNoLink>>,
    <<LineHeading>> }

MetadataDocs ==
  {Doc(fm, h \o b) : fm \in FrontmatterPool, h \in HeaderPool, b \in BodyPool}


(* Heading-based plan documents of k phases, the first c of them completed *)
RECURSIVE HeadingBlocks(_, _)
HeadingBlocks(k, c) ==
  IF k = 0 THEN <<>>
  ELSE HeadingBlocks(k - 1, c)
         \o << Heading(IntToStr(k), <<":", " ">>, <<"Setup">>),
               StatusLine(IF k <= c THEN <<" ", "Done">> ELSE <<" ", "Todo">>) >>

CountedDocs ==
  {Doc(NoFrontmatter, HeadingBlocks(k, c)) : k \in 1..MaxHeadings,
                                             c \in 0..MaxHeadings}

-----------------------------------------------------------------------------
(* The run of extractPlanData(p) (mode "extract") or of parsePlanTable(p)   *)
(* called on its own (mode "parse").  pc is the await the run stands at:    *)
(*   xpd_read  extractPlanData: readFile(planPath)                          *)
(*   xpd_stat  extractPlanData: stat(planPath)                              *)
(*   ppt_read  parsePlanTable: readFile(planFilePath)                       *)
(*   enrich    enrichPhasesWithFileMetadata: Promise.all of the callbacks;  *)
(*             est[i] is where callback i stands: "access" (the access      *)
(*             check of extractPhaseMetadata), "read" (its readFile) or     *)
(*             "done"; eres[i] is its value; eorder lists the callbacks in  *)
(*             the order they completed; eread[i] is the file its readFile  *)
(*             returned and eend[i] how it ended: "ineligible", "pending",  *)
(*             "no-access", "read-failed" or "read"                         *)
(*   done      the promise is fulfilled with out                            *)
(*   failed    the promise is rejected                                      *)

NoOut == [kind |-> "none", phases |-> <<>>, plan |-> <<>>]

IdleTask ==
  [pc |-> "idle", mode |-> "none", content |-> <<>>, pcontent |-> <<>>,
   parsed |-> <<>>, est |-> <<>>, eread |-> <<>>, eend |-> <<>>,
   eres |-> <<>>, eorder |-> <<>>, stats |-> 0, out |-> NoOut]

StartedTask(mode) ==
  [IdleTask EXCEPT !.mode = mode,
                   !.pc = IF mode = "extract" THEN "xpd_read" ELSE "ppt_read"]

RejectedAsEmpty(t) ==
  [t EXCEPT !.pc = "done",
            !.out = [kind |-> "phases", phases |-> <<>>, plan |-> <<>>]]

Rejected(t) ==
  [t EXCEPT !.pc = "failed",
            !.out = [kind |-> "error", phases |-> <<>>, plan |-> <<>>]]

(* The run returns: parsePlanTable hands phases to its caller, which is     *)
(* either the outside or extractPlanData, which builds the PlanData.        *)
Fulfilled(t, p, phases) ==
  [t EXCEPT !.pc = "done",
            !.out = IF t.mode = "parse"
                      THEN [kind |-> "phases", phases |-> phases,
                            plan |-> <<>>]
                    ELSE [kind |-> "plan", phases |-> <<>>,
                          plan |-> <<PlanData(p, t.content[1], t.stats,
                                              phases)>>]]

Running(t) == t.pc \notin {"idle", "done", "failed"}

(* extractPlanData line 387 *)
XpdRead(p) ==
  /\ task[p].pc = "xpd_read"
  /\ task' = [task EXCEPT ![p] =
                IF File(p) = <<>> THEN Rejected(@)
                ELSE [@ EXCEPT !.content = File(p), !.pc = "xpd_stat"]]
  /\ UNCHANGED <<fs, dirs, env, batch, pure, mtime, ext>>

(* extractPlanData line 388 *)
XpdStat(p) ==
  /\ task[p].pc = "xpd_stat"
  /\ task' = [task EXCEPT ![p] =
                IF File(p) = <<>> THEN Rejected(@)
                ELSE [@ EXCEPT !.stats = mtime[p], !.pc = "ppt_read"]]
  /\ UNCHANGED <<fs, dirs, env, batch, pure, mtime, ext>>

(* The indices of the phases that are not eligible, in list order *)
IneligibleOrder(phases) ==
  SelectSeq([i \in 1..Len(phases) |->
               IF EnrichEligible(phases[i]) THEN 0 ELSE i],
            LAMBDA i : i # 0)

(* parsePlanTable after its strategies ran (lines 113-153): an empty list   *)
(* is returned as it is, a non-empty one starts the enrichment callbacks    *)
(* (lines 174-179), the ineligible phases being settled at once.            *)
Parsed(t, p, content, phases) ==
  IF Len(phases) = 0
    THEN Fulfilled([t EXCEPT !.pcontent = <<content>>], p, <<>>)
  ELSE [t EXCEPT
          !.pc = "enrich",
          !.pcontent = <<content>>,
          !.parsed = phases,
          !.est = [i \in 1..Len(phases) |->
                     IF EnrichEligible(phases[i]) THEN "access" ELSE "done"],
          !.eread = [i \in 1..Len(phases) |-> <<>>],
          !.eend = [i \in 1..Len(phases) |->
                      IF EnrichEligible(phases[i]) THEN "pending"
                      ELSE "ineligible"],
          !.eres = phases,
          !.eorder = IneligibleOrder(phases)]

(* parsePlanTable lines 103-153 and the start of enrichment (lines 174-179) *)
PptRead(p) ==
  /\ task[p].pc = "ppt_read"
  /\ task' = [task EXCEPT ![p] =
       IF File(p) = <<>> THEN Rejected(@)
       ELSE Parsed(@, p, File(p)[1], ParsePhases(File(p)[1], p))]
  /\ UNCHANGED <<fs, dirs, env, batch, pure, mtime, ext>>

(* extractPhaseMetadata lines 198-203: the access check of callback i *)
EnrichAccess(p, i) ==
  /\ task[p].pc = "enrich"
  /\ i \in 1..Len(task[p].est)
  /\ task[p].est[i] = "access"
  /\ task' = [task EXCEPT ![p] =
       IF File(@.parsed[i].file) = <<>>
         THEN [@ EXCEPT !.est[i] = "done", !.eend[i] = "no-access",
                        !.eorder = Append(@, i)]
       ELSE [@ EXCEPT !.est[i] = "read"]]
  /\ UNCHANGED <<fs, dirs, env, batch, pure, mtime, ext>>

(* The metadata of a phase file as read: none when the read fails *)
MetadataOfFile(file) ==
  IF file = <<>> THEN NoMetadata ELSE PhaseMetadataOf(file[1])

EnrichedAlways(phase, metadata) == EnrichedPhase(phase, metadata)

(* The value of enrichment callback i (lines 181-199): the phase with the   *)
(* file's metadata, or the phase as parsed when there is none.              *)
EnrichedWith(phase, metadata) ==
  IF metadata.ok THEN EnrichedPhase(phase, metadata) ELSE phase

(* Callback i settles having read file (<<>> when the read failed); eread   *)
(* and eend record what it read and how it ended.                           *)
Enriched(t, i, file) ==
  [t EXCEPT !.est[i] = "done",
            !.eread[i] = file,
            !.eend[i] = IF file = <<>> THEN "read-failed" ELSE "read",
            !.eorder = Append(@, i),
            !.eres[i] = EnrichedWith(t.parsed[i], MetadataOfFile(file))]

(* extractPhaseMetadata lines 206-224 and enrichment lines 181-199: the     *)
(* read of callback i, the extraction, and the value of the callback.  A    *)
(* failed read is caught at line 194.                                       *)
EnrichRead(p, i) ==
  /\ task[p].pc = "enrich"
  /\ i \in 1..Len(task[p].est)
  /\ task[p].est[i] = "read"
  /\ task' = [task EXCEPT ![p] = Enriched(@, i, File(@.parsed[i].file))]
  /\ UNCHANGED <<fs, dirs, env, batch, pure, mtime, ext>>

(* Promise.all settles (line 174); parsePlanTable returns the list *)
EnrichJoin(p) ==
  /\ task[p].pc = "enrich"
  /\ \A i \in 1..Len(task[p].est) : task[p].est[i] = "done"
  /\ task' = [task EXCEPT ![p] =
                Fulfilled(@, p, CollectEnriched(@.eres, @.eorder))]
  /\ UNCHANGED <<fs, dirs, env, batch, pure, mtime, ext>>

(* The environment deletes a file while a run is in flight *)
EnvDelete(f) ==
  /\ env > 0
  /\ f \in DOMAIN fs
  /\ fs[f] # <<>>
  /\ \E p \in PlanPaths : Running(task[p])
  /\ fs' = [fs EXCEPT ![f] = <<>>]
  /\ env' = env - 1
  /\ UNCHANGED <<dirs, task, batch, pure, mtime, ext>>

-----------------------------------------------------------------------------
(* Spec: one call of parsePlanTable or extractPlanData on the plan file of  *)
(* plan "a", over three families of workspaces.                             *)

ThePlan == PlanFile("a")

NoBatch == [op |-> "none", pc |-> "idle", files |-> <<>>, scan |-> <<>>,
            results |-> <<>>, progress |-> <<>>, fired |-> 0]
NoPure == [op |-> "none", arg |-> <<>>, list |-> <<>>, out |-> ""]

(* The modification times the plan files start with *)
FirstTimes == [p \in PlanPaths |-> IF p = PlanFile("a") THEN 1 ELSE 2]

(* The extension before anything ran: no progress cached, nothing shown,    *)
(* no timer set, no refresh started                                         *)
NoExt == [op |-> "none"]

AllDirs == {PlansDir} \cup {PlanDir(d) : d \in PlanDirNames}

(* the files of a workspace holding plan "a": its plan file and two phase files *)
Workspace(plan, phase1, phase2) ==
  [f \in Paths |->
     IF f = ThePlan THEN plan
     ELSE IF f = PhaseFile("a", "1") THEN phase1
     ELSE IF f = PhaseFile("a", "2") THEN phase2
     ELSE <<>>]

Present(S) == {<<d>> : d \in S}
Optional(S) == {<<>>} \cup Present(S)

InitGenerated ==
  /\ fs \in {Workspace(plan, <<PhaseTable(<<"In", " ", "Progress">>)>>, <<>>) :
               plan \in Present(GeneratedDocs)}
  /\ env = 0
  /\ task = [p \in PlanPaths |->
               IF p = ThePlan THEN StartedTask("parse") ELSE IdleTask]

InitTables ==
  /\ fs \in {Workspace(plan, <<PhaseTable(<<"In", " ", "Progress">>)>>, <<>>) :
               plan \in Present(TableDocs \cup NamelessDocs \cup CheckboxDocs
                                 \cup MixedNumberDocs)}
  /\ env = 0
  /\ task = [p \in PlanPaths |->
               IF p = ThePlan THEN StartedTask("parse") ELSE IdleTask]

InitLinked ==
  /\ fs \in {Workspace(plan, phase1, phase2) :
               plan \in Optional(LinkedDocs),
               phase1 \in Optional(PhaseFilePool),
               phase2 \in Optional(PhaseFilePool)}
  /\ env = MaxEnvDeletes
  /\ \E mode \in {"parse", "extract"} :
       task = [p \in PlanPaths |->
                 IF p = ThePlan THEN StartedTask(mode) ELSE IdleTask]

InitMetadata ==
  /\ fs \in {Workspace(plan, <<PhaseTable(<<"U+2705", " ", "Complete">>)>>,
                       <<>>) :
               plan \in Present(MetadataDocs \cup CountedDocs)}
  /\ env = 0
  /\ task = [p \in PlanPaths |->
               IF p = ThePlan THEN StartedTask("extract") ELSE IdleTask]

Init ==
  /\ dirs = AllDirs
  /\ batch = NoBatch
  /\ pure = NoPure
  /\ mtime = FirstTimes
  /\ ext = NoExt
  /\ (InitGenerated \/ InitTables \/ InitLinked \/ InitMetadata)

Next ==
  \/ \E p \in PlanPaths : XpdRead(p)
  \/ \E p \in PlanPaths : XpdStat(p)
  \/ \E p \in PlanPaths : PptRead(p)
  \/ \E p \in PlanPaths : \E i \in 1..Len(task[p].est) : EnrichAccess(p, i)
  \/ \E p \in PlanPaths : \E i \in 1..Len(task[p].est) : EnrichRead(p, i)
  \/ \E p \in PlanPaths : EnrichJoin(p)
  \/ \E f \in Paths : EnvDelete(f)

Spec == Init /\ [][Next]_vars


-----------------------------------------------------------------------------
(* Properties of one run of parsePlanTable / extractPlanData                *)

(* The results of the five strategies on a content, in the order of         *)
(* parsePlanTable (lines 113-147)                                           *)
Strategies(content, p) ==
  << parseMultiColumnTable(content.lines, PathDirname(p), p),
     parseLinkFirstTable(content.lines, PathDirname(p)),
     parseNumberedListWithStatus(content.lines, p),
     parseHeadingBased(content.lines, p),
     parseCheckboxList(content.lines, PathDirname(p), p) >>

NonEmptyStrategies(rs) == {k \in DOMAIN rs : Len(rs[k]) > 0}

(* The phases parsePlanTable returned in a run that is done *)
Returned(t) == IF t.mode = "parse" THEN t.out.phases ELSE t.out.plan[1].phases

(* a and b are the same phase of the plan: number, name, file, link label *)
SamePhase(a, b) ==
  a.phase = b.phase /\ a.name = b.name /\ a.file = b.file
    /\ a.linkText = b.linkText

(* C1: the phases parsePlanTable works on are the result of the first of    *)
(* the five strategies, in the order multi-column table, link-first table,  *)
(* numbered list, heading-based, checkbox list, whose result is non-empty,  *)
(* and nothing of any later strategy; the list it returns is those phases   *)
(* (enriched), and is empty exactly when all five results are empty.        *)
C1_FirstStrategyWins ==
  \A p \in PlanPaths :
    task[p].pcontent # <<>> =>
      LET rs == Strategies(task[p].pcontent[1], p)
          ne == NonEmptyStrategies(rs)
      IN  /\ ne = {} => task[p].parsed = <<>>
          /\ ne # {} => task[p].parsed = rs[Min(ne)]
          /\ task[p].pc = "done" =>
                /\ (Returned(task[p]) = <<>>) <=> (ne = {})
                /\ Len(Returned(task[p])) = Len(task[p].parsed)
                /\ \A i \in 1..Len(task[p].parsed) :
                     SamePhase(Returned(task[p])[i], task[p].parsed[i])

(* A run returned the multi-column result of a plan on which the link-first *)
(* strategy matches too, with another result.                               *)
C1_Witness ==
  \E p \in PlanPaths :
    /\ task[p].pc = "done"
    /\ task[p].pcontent # <<>>
    /\ LET rs == Strategies(task[p].pcontent[1], p)
       IN  /\ Len(rs[1]) > 0
           /\ Len(rs[2]) > 0
           /\ rs[1] # rs[2]
           /\ \A i \in 1..Len(rs[1]) : SamePhase(Returned(task[p])[i], rs[1][i])

(* C2: a phase whose file was read and gave metadata has the file's status  *)
(* whatever the plan document said, the file's effort when the file gave    *)
(* one and its own effort otherwise, and its number, name, file and link    *)
(* label as parsed.                                                         *)
C2_FileStatusOverrides ==
  \A p \in PlanPaths : \A i \in 1..Len(task[p].eend) :
    (task[p].eend[i] = "read" /\ MetadataOfFile(task[p].eread[i]).ok) =>
      LET m   == MetadataOfFile(task[p].eread[i])
          was == task[p].parsed[i]
          WithFile(r) ==
            /\ r.status = m.status
            /\ r.effort = IF Falsy(m.effort) THEN was.effort ELSE m.effort
            /\ SamePhase(r, was)
      IN  /\ WithFile(task[p].eres[i])
          /\ task[p].pc = "done" => WithFile(Returned(task[p])[i])

(* A run returned completed for a phase the plan table says is pending and  *)
(* whose file says complete.                                                *)
C2_Witness ==
  \E p \in PlanPaths : \E i \in 1..Len(task[p].eend) :
    /\ task[p].pc = "done"
    /\ task[p].eend[i] = "read"
    /\ MetadataOfFile(task[p].eread[i]).ok
    /\ task[p].parsed[i].status = "pending"
    /\ MetadataOfFile(task[p].eread[i]).status = "completed"
    /\ Returned(task[p])[i].status = "completed"

(* C3: whatever the order in which the enrichment callbacks settle, the     *)
(* list returned has the length of the list parsed and at each place the    *)
(* value of the callback of the phase parsed at that place.                 *)
C3_OutputOrderIsInputOrder ==
  \A p \in PlanPaths :
    task[p].pc = "done" =>
      /\ Len(Returned(task[p])) = Len(task[p].parsed)
      /\ \A i \in 1..Len(task[p].parsed) :
           /\ SamePhase(Returned(task[p])[i], task[p].parsed[i])
           /\ Returned(task[p])[i] = task[p].eres[i]

(* A run is done in which the callback of a later phase settled before the  *)
(* callback of the first, one of the two with a read, the other without.    *)
C3_Witness ==
  \E p \in PlanPaths :
    /\ task[p].pc = "done"
    /\ Len(task[p].parsed) >= 2
    /\ task[p].eorder[1] # 1
    /\ \E i \in 1..Len(task[p].eend) : task[p].eend[i] = "read"
    /\ \E i \in 1..Len(task[p].eend) :
         task[p].eend[i] \in {"no-access", "read-failed"}

(* The callback of phase i ended without metadata: the file was not         *)
(* accessible, the read failed, or the file read holds no status.           *)
WithoutMetadata(t, i) ==
  \/ t.eend[i] \in {"no-access", "read-failed"}
  \/ t.eend[i] = "read" /\ ~MetadataOfFile(t.eread[i]).ok

(* C4: a run is rejected only before the plan document is parsed; a phase   *)
(* whose file is missing, unreadable, gone between the access check and the *)
(* read, or without a status is returned as parsed, status and effort       *)
(* included, and every other phase whose file gave metadata still has the   *)
(* file's status.                                                           *)
C4_EnrichmentNeverFails ==
  \A p \in PlanPaths :
    /\ task[p].pc = "failed" => task[p].pcontent = <<>>
    /\ \A i \in 1..Len(task[p].eend) :
         /\ WithoutMetadata(task[p], i) =>
              /\ task[p].eres[i] = task[p].parsed[i]
              /\ task[p].pc = "done" =>
                    Returned(task[p])[i] = task[p].parsed[i]
         /\ (/\ task[p].pc = "done"
             /\ task[p].eend[i] = "read"
             /\ MetadataOfFile(task[p].eread[i]).ok) =>
              Returned(task[p])[i].status =
                MetadataOfFile(task[p].eread[i]).status

(* A run is done in which the file of one phase, not pending in the plan,   *)
(* went away between the access check and the read, and another phase took  *)
(* another status from its file.                                            *)
C4_Witness ==
  \E p \in PlanPaths : \E i, j \in 1..Len(task[p].eend) :
    /\ task[p].pc = "done"
    /\ task[p].eend[i] = "read-failed"
    /\ task[p].parsed[i].status # "pending"
    /\ Returned(task[p])[i] = task[p].parsed[i]
    /\ task[p].eend[j] = "read"
    /\ MetadataOfFile(task[p].eread[j]).ok
    /\ Returned(task[p])[j].status # task[p].parsed[j].status

(* The PlanData of a run of extractPlanData that is done *)
PlanOf(t) == t.out.plan[1]

CompletedIn(phases) == {i \in 1..Len(phases) : phases[i].status = "completed"}

(* C5: in every PlanData returned, totalCount is the number of phases,      *)
(* completedCount the number of completed phases, between 0 and totalCount, *)
(* and percentage is 100*completedCount/totalCount rounded to the nearest   *)
(* integer (halves up), 0 for no phase, hence within 0..100.                *)
C5_PlanCounts ==
  \A p \in PlanPaths :
    (task[p].pc = "done" /\ task[p].mode = "extract") =>
      LET r == PlanOf(task[p])
          c == Cardinality(CompletedIn(r.phases))
          t == Len(r.phases)
      IN  /\ r.totalCount = t
          /\ r.completedCount = c
          /\ 0 <= r.completedCount /\ r.completedCount <= r.totalCount
          /\ r.percentage \in 0..100
          /\ t = 0 => r.percentage = 0
          /\ t > 0 => /\ 2 * (100 * c - r.percentage * t) >= -t
                      /\ 2 * (100 * c - r.percentage * t) < t

(* A PlanData was returned whose percentage was rounded up from a half *)
C5_Witness ==
  \E p \in PlanPaths :
    /\ task[p].pc = "done"
    /\ task[p].mode = "extract"
    /\ PlanOf(task[p]).totalCount > 0
    /\ PlanOf(task[p]).completedCount < PlanOf(task[p]).totalCount
    /\ 2 * ((100 * PlanOf(task[p]).completedCount)
              % PlanOf(task[p]).totalCount) = PlanOf(task[p]).totalCount

(* The frontmatter of the content carries a status field *)
HasStatusField(content) ==
  content.fm.kind = "data" /\ ~Falsy(content.fm.status)

(* A bold Status label stands within the first 50 lines of the content *)
HasStatusLabel(content) ==
  \E i \in 1..Len(content.lines) :
    /\ LineIndex(content, i) < HEADER_LINES
    /\ HeaderStatusValue(content.lines[i]) # Undefined

(* C6: the status of a PlanData is the frontmatter status when the          *)
(* frontmatter carries a status field, otherwise the status of the header's *)
(* Status label when there is one in the first 50 lines, otherwise the      *)
(* status calculated from the phases.                                       *)
C6_StatusPrecedence ==
  \A p \in PlanPaths :
    (task[p].pc = "done" /\ task[p].mode = "extract") =>
      LET c == task[p].content[1]
          r == PlanOf(task[p])
      IN  r.status =
            IF HasStatusField(c) THEN normalizeMetadataStatus(c.fm.status)
            ELSE IF HasStatusLabel(c) THEN extractFromHeader(c).status
            ELSE calculatePlanStatus(r.phases)

(* C10: a step of parsePlanTable or of extractPlanData that reads the plan  *)
(* file while the file is missing or unreadable rejects the run with the    *)
(* read error: the run ends failed, with neither a phase list nor a         *)
(* PlanData as its result.                                                  *)
C10_MissingPlanRejects ==
  [][\A p \in PlanPaths :
       (/\ task[p].pc \in {"xpd_read", "xpd_stat", "ppt_read"}
        /\ File(p) = <<>>
        /\ task'[p] # task[p]) =>
         /\ task'[p].pc = "failed"
         /\ task'[p].out.kind = "error"
         /\ task'[p].out.phases = <<>>
         /\ task'[p].out.plan = <<>>]_vars

(* A call of parsePlanTable on a missing plan file was rejected *)
C10_Witness ==
  \E p \in PlanPaths :
    /\ task[p].pc = "failed"
    /\ task[p].mode = "parse"
    /\ task[p].out.kind = "error"
    /\ File(p) = <<>>

-----------------------------------------------------------------------------
(* SpecStatus: one call of normalizeStatus or of calculatePlanStatus        *)

(* The pieces status texts are made of *)
StatusFragments ==
  { <<"complete">>, <<"COMPLETE", "D">>, <<"Done">>,
    <<"in", "-", "progress">>, <<"In", " ", "Progress">>, <<"Active">>,
    <<"WIP">>, <<"pending">>, <<"todo">>, <<"Working">>, <<" ">>,
    EmojiCheckMark, EmojiHeavyCheckMark, EmojiArrows,
    LitCheckMark, LitHeavyCheckMark, LitArrows }

(* The texts made of at most n fragments *)
RECURSIVE StatusTexts(_)
StatusTexts(n) ==
  IF n = 0 THEN {<<>>}
  ELSE StatusTexts(n - 1)
         \cup {t \o f : t \in StatusTexts(n - 1), f \in StatusFragments}

StatusInputs == {Null, Undefined} \cup StatusTexts(MaxStatusParts)

(* PhaseStatus (types.ts) *)
PhaseStatuses == {"pending", "in-progress", "completed"}

(* The phase lists of at most MaxStatusList phases, by status *)
StatusLists ==
  UNION {[1..n -> PhaseStatuses] : n \in 0..MaxStatusList}

PhasesOf(statuses) ==
  [i \in 1..Len(statuses) |->
     Phase(i, <<"Phase", " ">> \o IntToStr(i), statuses[i], ThePlan,
           <<"Phase", " ">> \o IntToStr(i))]

InitStatus ==
  /\ mtime = FirstTimes
  /\ ext = NoExt
  /\ fs = [f \in Paths |-> <<>>]
  /\ dirs = AllDirs
  /\ env = 0
  /\ task = [p \in PlanPaths |-> IdleTask]
  /\ batch = NoBatch
  /\ pure \in
       {[op |-> "normalizeStatus", arg |-> a, list |-> <<>>, out |-> ""] :
          a \in StatusInputs}
       \cup {[op |-> "calculatePlanStatus", arg |-> <<>>,
               list |-> PhasesOf(l), out |-> ""] : l \in StatusLists}

CallNormalizeStatus ==
  /\ pure.op = "normalizeStatus"
  /\ pure.out = ""
  /\ pure' = [pure EXCEPT !.out = normalizeStatus(pure.arg)]
  /\ UNCHANGED <<fs, dirs, env, task, batch, mtime, ext>>

CallCalculatePlanStatus ==
  /\ pure.op = "calculatePlanStatus"
  /\ pure.out = ""
  /\ pure' = [pure EXCEPT !.out = calculatePlanStatus(pure.list)]
  /\ UNCHANGED <<fs, dirs, env, task, batch, mtime, ext>>

NextStatus == CallNormalizeStatus \/ CallCalculatePlanStatus

SpecStatus == InitStatus /\ [][NextStatus]_vars

(* C7: calculatePlanStatus gives pending for no phase, completed when every *)
(* phase is completed, in-progress when some phase is not completed and     *)
(* some phase is completed or in progress, pending when every phase is      *)
(* pending, and never cancelled.                                            *)
C7_CalculatedStatus ==
  (pure.op = "calculatePlanStatus" /\ pure.out # "") =>
    LET l == pure.list
        n == Len(l)
    IN  /\ n = 0 => pure.out = "pending"
        /\ (n > 0 /\ \A i \in 1..n : l[i].status = "completed")
             => pure.out = "completed"
        /\ (/\ \E i \in 1..n : l[i].status # "completed"
            /\ \E i \in 1..n : l[i].status \in {"completed", "in-progress"})
             => pure.out = "in-progress"
        /\ (n > 0 /\ \A i \in 1..n : l[i].status = "pending")
             => pure.out = "pending"
        /\ pure.out # "cancelled"

(* calculatePlanStatus gave in-progress for phases none of which is         *)
(* completed, one in progress and one pending.                              *)
C7_Witness ==
  /\ pure.op = "calculatePlanStatus"
  /\ pure.out = "in-progress"
  /\ \A i \in 1..Len(pure.list) : pure.list[i].status # "completed"
  /\ \E i \in 1..Len(pure.list) : pure.list[i].status = "in-progress"
  /\ \E i \in 1..Len(pure.list) : pure.list[i].status = "pending"

(* The indicators of a status text, matched without regard to case *)
HasCompletedIndicator(raw) ==
  \/ Includes(ToLower(raw), <<"complete">>)
  \/ Includes(ToLower(raw), <<"done">>)
  \/ Includes(raw, EmojiCheckMark)
  \/ Includes(raw, EmojiHeavyCheckMark)

HasProgressIndicator(raw) ==
  \/ Includes(ToLower(raw), <<"progress">>)
  \/ Includes(ToLower(raw), <<"active">>)
  \/ Includes(ToLower(raw), <<"wip">>)
  \/ Includes(raw, EmojiArrows)

(* C8: normalizeStatus gives completed for every text with a completed      *)
(* indicator (complete, done, a check-mark emoji), otherwise in-progress    *)
(* for every text with an in-progress indicator (progress, active, wip, the *)
(* arrows emoji), and pending for every other input, the empty string,      *)
(* null and undefined included.                                             *)
C8_NormalizeStatusPrecedence ==
  (pure.op = "normalizeStatus" /\ pure.out # "") =>
    pure.out =
      IF Falsy(pure.arg) THEN "pending"
      ELSE IF HasCompletedIndicator(pure.arg) THEN "completed"
      ELSE IF HasProgressIndicator(pure.arg) THEN "in-progress"
      ELSE "pending"

-----------------------------------------------------------------------------
(* SpecBatch: one call of parsePlans(files) or of PlansProject.refresh()    *)
(* over the plans "a" and "b".  batch.pc is where the call stands:          *)
(*   start    called                                                        *)
(*   readdir  refresh: scanPlansDirectory passed its access check           *)
(*   scan     refresh: scanPlansDirectory walks the entries left in scan    *)
(*   map      refresh: scanPlansDirectory found no plans directory          *)
(*   wait     the callbacks of the files run (task[p] is the run of file p) *)
(*   done     the call returned                                             *)
(*   aborted  refresh: the scan threw, the outer catch logged it            *)

InFiles(p) == \E i \in 1..Len(batch.files) : batch.files[i] = p

Settled(t) == t.pc \in {"done", "failed"}

InResults(p) == \E k \in 1..Len(batch.results) : batch.results[k].file = p

(* parsePlans lines 695-697: planFiles.map starts a callback per file *)
ParsePlansStart ==
  /\ batch.op = "parsePlans"
  /\ batch.pc = "start"
  /\ task' = [p \in PlanPaths |->
                IF InFiles(p) THEN StartedTask("parse") ELSE task[p]]
  /\ batch' = [batch EXCEPT !.pc = "wait"]
  /\ UNCHANGED <<fs, dirs, env, pure, mtime, ext>>

(* parsePlans lines 698-707: the callback of file p stores its phases, or   *)
(* the empty list when parsePlanTable was rejected                          *)
ParsePlansSet(p) ==
  /\ batch.op = "parsePlans"
  /\ batch.pc = "wait"
  /\ InFiles(p)
  /\ Settled(task[p])
  /\ ~InResults(p)
  /\ batch' = [batch EXCEPT !.results =
                 Append(@, [file |-> p,
                            phases |-> IF task[p].pc = "done"
                                         THEN task[p].out.phases
                                       ELSE <<>>])]
  /\ UNCHANGED <<fs, dirs, env, task, pure, mtime, ext>>

(* parsePlans line 710 *)
ParsePlansReturn ==
  /\ batch.op = "parsePlans"
  /\ batch.pc = "wait"
  /\ \A i \in 1..Len(batch.files) : InResults(batch.files[i])
  /\ batch' = [batch EXCEPT !.pc = "done"]
  /\ UNCHANGED <<fs, dirs, env, task, pure, mtime, ext>>

(* scanPlansDirectory lines 39-44: the access check of the plans directory *)
RefreshAccess ==
  /\ batch.op = "refresh"
  /\ batch.pc = "start"
  /\ batch' = [batch EXCEPT !.pc = IF PlansDir \in dirs THEN "readdir"
                                   ELSE "map"]
  /\ UNCHANGED <<fs, dirs, env, task, pure, mtime, ext>>

(* The orders in which readdir may list the names of S *)
Listings(S) ==
  {l \in [1..Cardinality(S) -> S] : \A x \in S : \E i \in DOMAIN l : l[i] = x}

(* scanPlansDirectory line 48: readdir lists the subdirectories, or throws  *)
(* (refresh lines 230-232 catch it)                                         *)
RefreshReaddir ==
  /\ batch.op = "refresh"
  /\ batch.pc = "readdir"
  /\ \/ /\ PlansDir \notin dirs
        /\ batch' = [batch EXCEPT !.pc = "aborted"]
     \/ /\ PlansDir \in dirs
        /\ \E l \in Listings({d \in PlanDirNames : PlanDir(d) \in dirs}) :
             batch' = [batch EXCEPT !.pc = "scan", !.scan = l]
  /\ UNCHANGED <<fs, dirs, env, task, pure, mtime, ext>>

(* scanPlansDirectory lines 51-66: the next entry, kept when its plan.md    *)
(* is accessible                                                            *)
RefreshScanEntry ==
  /\ batch.op = "refresh"
  /\ batch.pc = "scan"
  /\ batch.scan # <<>>
  /\ batch' = [batch EXCEPT
                 !.scan = Tail(@),
                 !.files = IF File(PlanFile(Head(batch.scan))) # <<>>
                             THEN Append(@, PlanFile(Head(batch.scan)))
                           ELSE @]
  /\ UNCHANGED <<fs, dirs, env, task, pure, mtime, ext>>

(* path.basename(path.dirname(p)) *)
DirName(p) == PathDirname(p)[Len(PathDirname(p))]

(* The place of a directory name in the order of localeCompare *)
NameOrder == <<"a", "b">>
NameRank(x) == CHOOSE i \in 1..Len(NameOrder) : NameOrder[i] = x

(* planFiles.sort by directory name, descending (lines 71-75) *)
RECURSIVE InsertDescending(_, _)
InsertDescending(sorted, f) ==
  IF sorted = <<>> THEN <<f>>
  ELSE IF NameRank(DirName(f)) > NameRank(DirName(Head(sorted)))
    THEN <<f>> \o sorted
  ELSE <<Head(sorted)>> \o InsertDescending(Tail(sorted), f)

RECURSIVE SortDescending(_)
SortDescending(files) ==
  IF files = <<>> THEN <<>>
  ELSE InsertDescending(SortDescending(SubSeq(files, 1, Len(files) - 1)),
                        files[Len(files)])

(* scanPlansDirectory lines 71-77 returns the sorted files; refresh lines   *)
(* 187-196 start a callback per file                                        *)
RefreshMap ==
  /\ batch.op = "refresh"
  /\ \/ batch.pc = "map"
     \/ batch.pc = "scan" /\ batch.scan = <<>>
  /\ batch' = [batch EXCEPT !.pc = "wait", !.files = SortDescending(@)]
  /\ task' = [p \in PlanPaths |->
                IF InFiles(p) THEN StartedTask("extract") ELSE task[p]]
  /\ UNCHANGED <<fs, dirs, env, pure, mtime, ext>>

RECURSIVE RefreshPlansUntilFailure(_, _)
RefreshPlansUntilFailure(files, t) ==
  IF files = <<>> \/ t[Head(files)].pc # "done" THEN <<>>
  ELSE t[Head(files)].out.plan \o RefreshPlansUntilFailure(Tail(files), t)

(* refresh lines 187-201: the values of the callbacks without the nulls *)
RECURSIVE RefreshPlans(_, _)
RefreshPlans(files, t) ==
  IF files = <<>> THEN <<>>
  ELSE (IF t[Head(files)].pc = "done" THEN t[Head(files)].out.plan ELSE <<>>)
         \o RefreshPlans(Tail(files), t)

RECURSIVE SumTotalCount(_)
SumTotalCount(plans) ==
  IF plans = <<>> THEN 0 ELSE Head(plans).totalCount + SumTotalCount(Tail(plans))

(* A sum that counts every phase as completed (ruled out by C13) *)
RECURSIVE SumEveryPhase(_)
SumEveryPhase(plans) ==
  IF plans = <<>> THEN 0 ELSE Head(plans).totalCount + SumEveryPhase(Tail(plans))

RECURSIVE SumCompletedCount(_)
SumCompletedCount(plans) ==
  IF plans = <<>> THEN 0
  ELSE Head(plans).completedCount + SumCompletedCount(Tail(plans))

(* this.progress (refresh lines 212-223) *)
ProgressOf(plans, totalPhases, completedPhases) ==
  [plans |-> plans, totalPhases |-> totalPhases,
   completedPhases |-> completedPhases,
   percentage |-> IF totalPhases > 0
                    THEN RoundPercent(completedPhases, totalPhases)
                  ELSE 0]

Progress(plans) ==
  ProgressOf(plans, SumTotalCount(plans), SumCompletedCount(plans))

(* statusBar.ts: findCurrentPlan and update.  A PlanData | null is <<>> for *)
(* null and <<plan>> otherwise; so is a ProjectProgress | null.             *)

(* Array.prototype.find: the first element the test accepts, if any *)
Find(plans, Test(_)) ==
  IF \E i \in 1..Len(plans) : Test(plans[i])
    THEN <<plans[Min({i \in 1..Len(plans) : Test(plans[i])})]>>
  ELSE <<>>

(* [...plans].sort((a, b) => b.lastModified - a.lastModified): the sort is  *)
(* stable, plans modified at the same time keep their order                 *)
RECURSIVE InsertByModified(_, _)
InsertByModified(sorted, plan) ==
  IF sorted = <<>> THEN <<plan>>
  ELSE IF plan.lastModified > Head(sorted).lastModified
    THEN <<plan>> \o sorted
  ELSE <<Head(sorted)>> \o InsertByModified(Tail(sorted), plan)

RECURSIVE SortByModified(_)
SortByModified(plans) ==
  IF plans = <<>> THEN <<>>
  ELSE InsertByModified(SortByModified(SubSeq(plans, 1, Len(plans) - 1)),
                        plans[Len(plans)])

IsInProgress(p) == p.status = "in-progress"
IsPendingWithProgress(p) == p.status = "pending" /\ p.completedCount > 0

FirstOf(found, otherwise) == IF found # <<>> THEN found ELSE otherwise

FirstSorted(sorted) == IF sorted = <<>> THEN <<>> ELSE <<sorted[1]>>

findCurrentPlanByDate(progress) ==
  IF progress = <<>> THEN <<>>
  ELSE FirstSorted(SortByModified(progress[1].plans))

findCurrentPlan(progress) ==
  IF progress = <<>> THEN <<>>
  ELSE FirstOf(Find(progress[1].plans, IsInProgress),
         FirstOf(Find(progress[1].plans, IsPendingWithProgress),
                 FirstSorted(SortByModified(progress[1].plans))))

(* PlansStatusBar.setProgress and update: the state of the status bar *)
setProgress(progress) ==
  [progress    |-> progress,
   currentPlan |-> IF progress = <<>> \/ Len(progress[1].plans) = 0
                     THEN <<>>
                   ELSE findCurrentPlan(progress)]

(* extension.ts updateUIFromProjects: the loop over the projects *)
RECURSIVE AggregateLoop(_, _)
AggregateLoop(projects, acc) ==
  IF projects = <<>> THEN acc
  ELSE AggregateLoop(Tail(projects),
         IF Head(projects) = <<>> THEN acc
         ELSE [allPlans |-> acc.allPlans \o Head(projects)[1].plans,
               totalPhases |-> acc.totalPhases + Head(projects)[1].totalPhases,
               completedPhases |->
                 acc.completedPhases + Head(projects)[1].completedPhases])

aggregateProgress(acc) ==
  ProgressOf(acc.allPlans, acc.totalPhases, acc.completedPhases)

(* updateUIFromProjects: the tree gets the plans, the status bar the        *)
(* aggregate                                                                *)
UiOf(e, aggregate) ==
  [e EXCEPT !.treePlans = aggregate.plans,
            !.statusBar = setProgress(<<aggregate>>),
            !.updates = @ + 1]

updateUIFromProjects(e, projects) ==
  UiOf(e, aggregateProgress(
            AggregateLoop(projects, [allPlans |-> <<>>, totalPhases |-> 0,
                                     completedPhases |-> 0])))

(* The projects of the extension: the one refreshed among the others *)
Projects(e, progress) == e.before \o <<progress>> \o e.after

(* refresh lines 199-229: Promise.all settled; progress is built and the    *)
(* change event fired, whose listener (extension.ts lines 371-373) is       *)
(* updateUIFromProjects                                                     *)
RefreshBuild ==
  /\ batch.op = "refresh"
  /\ batch.pc = "wait"
  /\ \A i \in 1..Len(batch.files) : Settled(task[batch.files[i]])
  /\ batch' = [batch EXCEPT
                 !.pc = "done",
                 !.progress = <<Progress(RefreshPlans(batch.files, task))>>,
                 !.fired = @ + 1]
  /\ ext' = updateUIFromProjects(ext, Projects(ext, batch'.progress))
  /\ UNCHANGED <<fs, dirs, env, task, pure, mtime>>

(* The environment removes the plans directory between the access check of  *)
(* the scan and its readdir                                                 *)
EnvRemoveDir ==
  /\ env > 0
  /\ batch.pc = "readdir"
  /\ dirs # {}
  /\ dirs' = {}
  /\ fs' = [f \in DOMAIN fs |-> <<>>]
  /\ env' = env - 1
  /\ UNCHANGED <<task, batch, pure, mtime, ext>>

(* The plan documents of the batch: a checkbox list whose phase links to a  *)
(* phase file, two headed phases of which one is done, a text without phase *)
BatchDocs ==
  { Doc(NoFrontmatter, <<LineChecked>>),
    Doc(NoFrontmatter, HeadingBlocks(2, 1)),
    Doc(NoFrontmatter, <<TextLine>>) }

(* The lists of plan files handed to parsePlans: no file twice *)
BatchFileLists ==
  {l \in UNION {[1..n -> PlanPaths] : n \in 0..Cardinality(PlanPaths)} :
     \A i, j \in DOMAIN l : l[i] = l[j] => i = j}

BatchWorkspace(planA, planB, phaseA, phaseB) ==
  [f \in Paths |->
     IF f = PlanFile("a") THEN planA
     ELSE IF f = PlanFile("b") THEN planB
     ELSE IF f = PhaseFile("a", "1") THEN phaseA
     ELSE IF f = PhaseFile("b", "1") THEN phaseB
     ELSE <<>>]

BatchOf(op, files) ==
  [NoBatch EXCEPT !.op = op, !.pc = "start", !.files = files]

(* The other projects of the extension: plans of another workspace folder   *)
(* as extractPlanData gives them, and the progress refresh built of them    *)
SiblingFile(d) == <<"/", "ws2", "/", "plans", "/", d, "/", "plan.md">>

SiblingPlan(d, doc, time) ==
  PlanData(SiblingFile(d), doc, time, ParsePhases(doc, SiblingFile(d)))

SiblingProgress ==
  { Progress(<<SiblingPlan("c", Doc(NoFrontmatter, HeadingBlocks(3, 1)), 3)>>),
    Progress(<<SiblingPlan("d", Doc(Frontmatter("data", Undefined, <<"2", "d">>),
                                    HeadingBlocks(2, 1)), 1),
               SiblingPlan("c", Doc(NoFrontmatter, HeadingBlocks(1, 1)), 2)>>) }

(* The extension with nothing shown yet *)
UiOfProjects(before, after) ==
  [op |-> "ui", before |-> before, after |-> after, treePlans |-> <<>>,
   statusBar |-> [progress |-> <<>>, currentPlan |-> <<>>], updates |-> 0]

InitBatch ==
  /\ \/ /\ dirs = AllDirs
        /\ fs \in {BatchWorkspace(planA, planB, phaseA, phaseB) :
                     planA \in Optional(BatchDocs),
                     planB \in Optional(BatchDocs),
                     phaseA \in
                       Optional({PhaseTable(<<"U+2705", " ", "Complete">>)}),
                     phaseB \in Optional({PhaseTable(<<"In", " ", "Progress">>)})}
     \/ /\ dirs = {}
        /\ fs = [f \in Paths |-> <<>>]
  /\ env = MaxEnvDeletes
  /\ task = [p \in PlanPaths |-> IdleTask]
  /\ \/ /\ batch \in {BatchOf("parsePlans", l) : l \in BatchFileLists}
        /\ ext = UiOfProjects(<<>>, <<>>)
     \/ /\ batch = BatchOf("refresh", <<>>)
        /\ \/ \E s \in SiblingProgress : ext = UiOfProjects(<< <<s>> >>, <<>>)
           \/ \E s \in SiblingProgress : ext = UiOfProjects(<<>>, << <<s>> >>)
           \/ ext = UiOfProjects(<<>>, <<>>)
  /\ pure = NoPure
  /\ mtime = FirstTimes

NextBatch ==
  \/ ParsePlansStart
  \/ \E p \in PlanPaths : ParsePlansSet(p)
  \/ ParsePlansReturn
  \/ RefreshAccess
  \/ RefreshReaddir
  \/ RefreshScanEntry
  \/ RefreshMap
  \/ RefreshBuild
  \/ \E p \in PlanPaths : XpdRead(p)
  \/ \E p \in PlanPaths : XpdStat(p)
  \/ \E p \in PlanPaths : PptRead(p)
  \/ \E p \in PlanPaths : \E i \in 1..Len(task[p].est) : EnrichAccess(p, i)
  \/ \E p \in PlanPaths : \E i \in 1..Len(task[p].est) : EnrichRead(p, i)
  \/ \E p \in PlanPaths : EnrichJoin(p)
  \/ \E f \in Paths : EnvDelete(f)
  \/ EnvRemoveDir

SpecBatch == InitBatch /\ [][NextBatch]_vars

(* The places of the files whose callback was fulfilled *)
Succeeded(files, t) == {i \in 1..Len(files) : t[files[i]].pc = "done"}

(* C9: a file that fails keeps no other file from being processed.  When    *)
(* parsePlans returns, every file given has run and has one entry in the    *)
(* map: the empty list if its parse was rejected, its phases otherwise.     *)
(* When refresh returns from a scan that did not throw, every file scanned  *)
(* has run, the plans of progress are exactly the plans of the files whose  *)
(* extraction was fulfilled, and the change event was fired once.  A run    *)
(* that is rejected never aborts the batch.                                 *)
C9_BatchIsolatesFailures ==
  /\ (batch.op = "parsePlans" /\ batch.pc = "done") =>
       /\ Len(batch.results) = Len(batch.files)
       /\ \A i \in 1..Len(batch.files) :
            /\ Settled(task[batch.files[i]])
            /\ \E k \in 1..Len(batch.results) :
                 /\ batch.results[k].file = batch.files[i]
                 /\ batch.results[k].phases =
                      IF task[batch.files[i]].pc = "failed" THEN <<>>
                      ELSE task[batch.files[i]].out.phases
  /\ (batch.op = "refresh" /\ batch.pc = "done") =>
       /\ \A i \in 1..Len(batch.files) : Settled(task[batch.files[i]])
       /\ batch.fired = 1
       /\ Len(batch.progress) = 1
       /\ Len(batch.progress[1].plans)
            = Cardinality(Succeeded(batch.files, task))
       /\ \A i \in Succeeded(batch.files, task) :
            \E k \in 1..Len(batch.progress[1].plans) :
              batch.progress[1].plans[k] = task[batch.files[i]].out.plan[1]
       /\ \A k \in 1..Len(batch.progress[1].plans) :
            \E i \in Succeeded(batch.files, task) :
              batch.progress[1].plans[k] = task[batch.files[i]].out.plan[1]
  /\ batch.pc = "aborted" => \A p \in PlanPaths : task[p].pc = "idle"
  /\ batch.pc # "done" => batch.fired = 0

(* refresh returned having fired its event, the extraction of its first     *)
(* file rejected and the plan of its second file, with phases, in progress  *)
C9_Witness ==
  /\ batch.op = "refresh"
  /\ batch.pc = "done"
  /\ batch.fired = 1
  /\ Len(batch.files) = 2
  /\ task[batch.files[1]].pc = "failed"
  /\ task[batch.files[2]].pc = "done"
  /\ Len(batch.progress[1].plans) = 1
  /\ batch.progress[1].plans[1].path = batch.files[2]
  /\ batch.progress[1].plans[1].totalCount > 0

-----------------------------------------------------------------------------
(* SpecOverlap: two calls of PlansProject.refresh() on one project, started *)
(* by the debounce timer (planProject.ts line 139) or by the refresh        *)
(* command (extension.ts line 187), while the files change.  refresh has    *)
(* two awaits, the scan (line 184) and Promise.all (line 199); what happens *)
(* inside them is SpecBatch's matter, so here the scan and the extraction   *)
(* of one file are one step each.  ext.runs[r].pc is where call r stands:   *)
(*   idle     not called                                                    *)
(*   scan     called, scanPlansDirectory not yet returned                   *)
(*   extract  the callbacks of the files run; vals[i] is <<>> while         *)
(*            callback i runs and then holds its value, <<>> for null       *)
(*   done     refresh returned; result is the progress it assigned          *)

RefreshIds == {1, 2}

IdleRun == [pc |-> "idle", order |-> 0, files |-> <<>>, vals |-> <<>>,
            finished |-> 0, result |-> <<>>]

(* The files as one enrichment sees them: every eligible phase with the     *)
(* metadata of its file                                                     *)
EnrichNow(phases) ==
  [i \in 1..Len(phases) |->
     IF EnrichEligible(phases[i])
       THEN EnrichedWith(phases[i], MetadataOfFile(File(phases[i].file)))
     ELSE phases[i]]

(* extractPlanData(p) on the files as they are: <<>> when it is rejected *)
ExtractNow(p) ==
  IF File(p) = <<>> THEN <<>>
  ELSE <<PlanData(p, File(p)[1], mtime[p],
                  EnrichNow(ParsePhases(File(p)[1], p)))>>

(* scanPlansDirectory on the files as they are *)
ScanNow ==
  IF PlansDir \notin dirs THEN <<>>
  ELSE SortDescending(SelectSeq(<<PlanFile("a"), PlanFile("b")>>,
                                LAMBDA f : PlanDir(DirName(f)) \in dirs
                                           /\ File(f) # <<>>))

(* refresh() is called (line 181) *)
OverlapStart(r) ==
  /\ ext.runs[r].pc = "idle"
  /\ ext' = [ext EXCEPT !.runs[r].pc = "scan",
                        !.runs[r].order = ext.started + 1,
                        !.started = @ + 1]
  /\ UNCHANGED <<fs, dirs, env, task, batch, pure, mtime>>

(* line 184 returns and lines 188-197 start a callback per file *)
OverlapScan(r) ==
  /\ ext.runs[r].pc = "scan"
  /\ ext' = [ext EXCEPT !.runs[r].pc = "extract",
                        !.runs[r].files = ScanNow,
                        !.runs[r].vals = [i \in 1..Len(ScanNow) |-> <<>>]]
  /\ UNCHANGED <<fs, dirs, env, task, batch, pure, mtime>>

(* lines 189-196: the callback of file i settles *)
OverlapExtract(r, i) ==
  /\ ext.runs[r].pc = "extract"
  /\ i \in 1..Len(ext.runs[r].files)
  /\ ext.runs[r].vals[i] = <<>>
  /\ ext' = [ext EXCEPT !.runs[r].vals[i] = <<ExtractNow(ext.runs[r].files[i])>>]
  /\ UNCHANGED <<fs, dirs, env, task, batch, pure, mtime>>

RECURSIVE OverlapPlans(_)
OverlapPlans(vals) ==
  IF vals = <<>> THEN <<>> ELSE Head(vals)[1] \o OverlapPlans(Tail(vals))

(* lines 214-225: this.progress = ... *)
OverlapAssign(e, r, progress) == <<progress>>

OverlapBuilt(e, r, progress) ==
  [e EXCEPT !.runs[r].pc = "done",
            !.runs[r].result = <<progress>>,
            !.runs[r].finished = e.finished + 1,
            !.finished = @ + 1,
            !.progress = OverlapAssign(e, r, progress),
            !.fired = @ + 1]

(* lines 199-229: Promise.all settled; progress is assigned, the event fired *)
OverlapBuild(r) ==
  /\ ext.runs[r].pc = "extract"
  /\ \A i \in 1..Len(ext.runs[r].vals) : ext.runs[r].vals[i] # <<>>
  /\ ext' = OverlapBuilt(ext, r, Progress(OverlapPlans(ext.runs[r].vals)))
  /\ UNCHANGED <<fs, dirs, env, task, batch, pure, mtime>>

(* A plan file is written or deleted while a refresh runs *)
OverlapWrite(f, d) ==
  /\ env > 0
  /\ \E r \in RefreshIds : ext.runs[r].pc \in {"scan", "extract"}
  /\ fs[f] # d
  /\ fs' = [fs EXCEPT ![f] = d]
  /\ mtime' = [mtime EXCEPT ![f] = @ + 2]
  /\ env' = env - 1
  /\ UNCHANGED <<dirs, task, batch, pure, ext>>

InitOverlap ==
  /\ dirs = AllDirs
  /\ fs \in {BatchWorkspace(planA, planB, <<>>, <<>>) :
               planA \in Optional(BatchDocs), planB \in Optional(BatchDocs)}
  /\ env = MaxEnvDeletes
  /\ task = [p \in PlanPaths |-> IdleTask]
  /\ batch = NoBatch
  /\ pure = NoPure
  /\ mtime = FirstTimes
  /\ ext = [op |-> "overlap", progress |-> <<>>, fired |-> 0, started |-> 0,
            finished |-> 0, runs |-> [r \in RefreshIds |-> IdleRun]]

NextOverlap ==
  \/ \E r \in RefreshIds : OverlapStart(r)
  \/ \E r \in RefreshIds : OverlapScan(r)
  \/ \E r \in RefreshIds : \E i \in 1..Len(ext.runs[r].files) :
       OverlapExtract(r, i)
  \/ \E r \in RefreshIds : OverlapBuild(r)
  \/ \E f \in PlanPaths : \E d \in Optional(BatchDocs) : OverlapWrite(f, d)

SpecOverlap == InitOverlap /\ [][NextOverlap]_vars

(* C11: when two refreshes of one project overlapped and both returned, the *)
(* cached progress (getProgress) is the one the later-started refresh       *)
(* computed, whichever of the two returned first.                           *)
C11_LaterRefreshWins ==
  \A r, q \in RefreshIds :
    (/\ ext.runs[r].pc = "done"
     /\ ext.runs[q].pc = "done"
     /\ ext.runs[r].order < ext.runs[q].order)
      => ext.progress = ext.runs[q].result

-----------------------------------------------------------------------------
(* SpecRerun: extractPlanData is called on the plan file of plan "a", and   *)
(* called again when it has settled.  No file is written or deleted; the    *)
(* environment may touch the plan file, which changes its modification      *)
(* time and nothing else.  ext.prev holds the first run once it settled.    *)

(* The caller calls extractPlanData(p) again (planProject.ts line 191) *)
Rerun(p) ==
  /\ ext.prev = <<>>
  /\ Settled(task[p])
  /\ ext' = [ext EXCEPT !.prev = <<task[p]>>]
  /\ task' = [task EXCEPT ![p] = StartedTask("extract")]
  /\ UNCHANGED <<fs, dirs, env, batch, pure, mtime>>

(* The plan file is touched: same content, later modification time *)
EnvTouch(p) ==
  /\ env > 0
  /\ fs[p] # <<>>
  /\ mtime' = [mtime EXCEPT ![p] = @ + 2]
  /\ env' = env - 1
  /\ UNCHANGED <<fs, dirs, task, batch, pure, ext>>

InitRerun ==
  /\ dirs = AllDirs
  /\ fs \in {Workspace(plan, phase1, phase2) :
               plan \in Optional(LinkedDocs),
               phase1 \in Optional(PhaseFilePool),
               phase2 \in Optional(PhaseFilePool)}
  /\ env = MaxEnvDeletes
  /\ task = [p \in PlanPaths |->
               IF p = ThePlan THEN StartedTask("extract") ELSE IdleTask]
  /\ batch = NoBatch
  /\ pure = NoPure
  /\ mtime = FirstTimes
  /\ ext = [op |-> "rerun", prev |-> <<>>]

NextRerun ==
  \/ XpdRead(ThePlan)
  \/ XpdStat(ThePlan)
  \/ PptRead(ThePlan)
  \/ \E i \in 1..Len(task[ThePlan].est) : EnrichAccess(ThePlan, i)
  \/ \E i \in 1..Len(task[ThePlan].est) : EnrichRead(ThePlan, i)
  \/ EnrichJoin(ThePlan)
  \/ Rerun(ThePlan)
  \/ EnvTouch(ThePlan)

SpecRerun == InitRerun /\ [][NextRerun]_vars

(* A PlanData without its lastModified *)
ButLastModified(plan) ==
  [f \in DOMAIN plan \ {"lastModified"} |-> plan[f]]

CountedPairs(plans, Count(_)) ==
  UNION {{<<k, j>> : j \in 1..Count(plans[k])} : k \in 1..Len(plans)}

TotalCountOf(p) == p.totalCount
CompletedCountOf(p) == p.completedCount

(* percentage is 100 * completed / total rounded to the nearest integer,    *)
(* halves upwards                                                           *)
IsRounded(percentage, completed, total) ==
  /\ 2 * percentage * total <= 200 * completed + total
  /\ 200 * completed + total < 2 * (percentage + 1) * total

IsSumOfPlans(g) ==
  /\ g.totalPhases = Cardinality(CountedPairs(g.plans, TotalCountOf))
  /\ g.completedPhases = Cardinality(CountedPairs(g.plans, CompletedCountOf))
  /\ g.percentage = 0 \/ g.totalPhases > 0
  /\ g.totalPhases > 0
       => IsRounded(g.percentage, g.completedPhases, g.totalPhases)

RECURSIVE PlansOfProjects(_)
PlansOfProjects(projects) ==
  IF projects = <<>> THEN <<>>
  ELSE (IF Head(projects) = <<>> THEN <<>> ELSE Head(projects)[1].plans)
         \o PlansOfProjects(Tail(projects))

(* C13: the progress refresh assigns, and the aggregate updateUIFromProjects *)
(* hands to the status bar, have totalPhases and completedPhases equal to   *)
(* the sums of totalCount and completedCount over their plans and the       *)
(* percentage rounded from them, 0 for no phase; the plans of the aggregate *)
(* are the plans of the projects, in order and unchanged.                   *)
C13_ProgressSumsItsPlans ==
  /\ batch.progress # <<>> => IsSumOfPlans(batch.progress[1])
  /\ ext.statusBar.progress # <<>> =>
       /\ IsSumOfPlans(ext.statusBar.progress[1])
       /\ ext.statusBar.progress[1].plans
            = PlansOfProjects(Projects(ext, batch.progress))
       /\ ext.treePlans = ext.statusBar.progress[1].plans

(* The aggregate was built over the refreshed project, with a plan of its   *)
(* own, and another project; some but not all of its phases are completed.  *)
C13_Witness ==
  /\ batch.pc = "done"
  /\ ext.statusBar.progress # <<>>
  /\ ext.before # <<>>
  /\ Len(batch.progress[1].plans) > 0
  /\ batch.progress[1].totalPhases > 0
  /\ ext.statusBar.progress[1].totalPhases > batch.progress[1].totalPhases
  /\ ext.statusBar.progress[1].completedPhases > 0
  /\ ext.statusBar.progress[1].completedPhases
       < ext.statusBar.progress[1].totalPhases
-----------------------------------------------------------------------------
(* Tables the multi-column strategy passes over                             *)

(* The line is a table row with a cell that contains the word status *)
HasStatusColumn(line) ==
  /\ HasPipe(line)
  /\ \E i \in 1..Len(line.cells) :
       Includes(ToLower(Trim(line.cells[i])), <<"status">>)

(* The line has a phase-number, phase/name or description column *)
HasPhaseColumn(line) ==
  \E i \in 1..Len(line.cells) :
    ToLower(Trim(line.cells[i])) \in
      { <<"#">>, <<"order">>, <<"phase">>, <<"phase", " ", "name">>,
        <<"name">>, <<"title">>, <<"description">>, <<"desc">> }

(* The places of the rows with a status column, in a list of lines *)
StatusRows(lines) == {i \in 1..Len(lines) : HasStatusColumn(lines[i])}

(* The first place after h that is not a table row; Len + 1 if none *)
TableEnd(lines, h) ==
  Min({i \in (h + 1)..(Len(lines) + 1) :
         i = Len(lines) + 1 \/ ~HasPipe(lines[i])})

(* The lines from place e to the end *)
LinesFrom(lines, e) == SubSeq(lines, e, Len(lines))

(* C14: when the first table with a status column has no phase-number,      *)
(* phase/name or description column, the multi-column strategy takes no     *)
(* phase from it and gives what it gives on the lines after that table, so  *)
(* a phase table further down is parsed; when no table row has a status     *)
(* column the multi-column strategy gives no phase, so a numbered list that *)
(* follows is parsed by the numbered-list strategy.                         *)
C14_TablesPassedOver ==
  \A p \in PlanPaths :
    task[p].pcontent # <<>> =>
      LET lines == task[p].pcontent[1].lines
          rs    == Strategies(task[p].pcontent[1], p)
          rows  == StatusRows(lines)
      IN  /\ (rows # {} /\ ~HasPhaseColumn(lines[Min(rows)])) =>
               LET rest == parseMultiColumnTable(
                             LinesFrom(lines, TableEnd(lines, Min(rows))),
                             PathDirname(p), p)
               IN  /\ rs[1] = rest
                   /\ Len(rest) > 0 => task[p].parsed = rest
          /\ rows = {} =>
               /\ rs[1] = <<>>
               /\ (Len(rs[2]) = 0 /\ Len(rs[3]) > 0) => task[p].parsed = rs[3]

(* A run returned the phases of a phase table that stands below a table     *)
(* with a status column and none of the phase columns.                      *)
C14_Witness ==
  \E p \in PlanPaths :
    /\ task[p].pc = "done"
    /\ task[p].pcontent # <<>>
    /\ LET lines == task[p].pcontent[1].lines
           rows  == StatusRows(lines)
       IN  /\ rows # {}
           /\ ~HasPhaseColumn(lines[Min(rows)])
           /\ TableEnd(lines, Min(rows)) <= Len(lines)
           /\ Len(task[p].parsed) > 0
           /\ task[p].parsed
                = parseMultiColumnTable(lines, PathDirname(p), p)
           /\ Len(Returned(task[p])) = Len(task[p].parsed)

(* A run returned the phases of a numbered list that stands below a         *)
(* dependency graph, a table with no status column.                         *)
C14_WitnessNumberedList ==
  \E p \in PlanPaths :
    /\ task[p].pc = "done"
    /\ task[p].pcontent # <<>>
    /\ LET lines == task[p].pcontent[1].lines
       IN  /\ StatusRows(lines) = {}
           /\ \E i \in 1..Len(lines) : lines[i] = RowDepends
           /\ Len(task[p].parsed) > 0
           /\ task[p].parsed = parseNumberedListWithStatus(lines, p)
-----------------------------------------------------------------------------
(* Names of the phases                                                      *)

(* The name "Phase <number>" of a phase *)
DefaultName(ph) == <<"Phase", " ">> \o IntToStr(ph.phase)

(* C15: every phase that parsePlanTable parsed or returned has a name that  *)
(* is not empty.                                                            *)
C15_PhaseNamesNonEmpty ==
  \A p \in PlanPaths :
    /\ \A i \in 1..Len(task[p].parsed) : task[p].parsed[i].name # <<>>
    /\ (task[p].pc = "done" /\ task[p].mode = "parse") =>
         \A i \in 1..Len(Returned(task[p])) :
           Returned(task[p])[i].name # <<>>

(* The part of C15 that holds: a phase of the checkbox list, and a phase of *)
(* a table whose name cell holds bold markers and nothing else, is named    *)
(* "Phase <number>" when it has no name text.                               *)
C15_DefaultNameWhereApplied ==
  \A p \in PlanPaths :
    (task[p].pcontent # <<>> /\ task[p].pcontent[1].lines # <<>>) =>
      LET first == task[p].pcontent[1].lines[1]
          last  == task[p].pcontent[1].lines[Len(task[p].pcontent[1].lines)]
      IN  (first = LineCheckedNoName \/ last = RowEmptyBold) =>
            /\ Len(task[p].parsed) > 0
            /\ \A i \in 1..Len(task[p].parsed) :
                 task[p].parsed[i].name = DefaultName(task[p].parsed[i])
-----------------------------------------------------------------------------
(* metadataExtractor.ts parseDateFromDirName.  A Date is kept by its local  *)
(* calendar fields: year, month (1..12), day; undefined is NoDate.          *)

NoDate == [ok |-> FALSE, year |-> 0, month |-> 0, day |-> 0]

IsLeapYear(y) == y % 4 = 0 /\ (y % 100 # 0 \/ y % 400 = 0)

DaysInMonth(y, m) ==
  IF m = 2 THEN (IF IsLeapYear(y) THEN 29 ELSE 28)
  ELSE IF m \in {4, 6, 9, 11} THEN 30
  ELSE 31

(* MakeDay of ECMAScript: day d of month m (1..12) of year y, where d may   *)
(* lie outside the month; the date is counted on from the month's first day *)
RECURSIVE MakeDay(_, _, _)
MakeDay(y, m, d) ==
  IF d < 1
    THEN (IF m = 1 THEN MakeDay(y - 1, 12, d + 31)
          ELSE MakeDay(y, m - 1, d + DaysInMonth(y, m - 1)))
  ELSE IF d > DaysInMonth(y, m)
    THEN (IF m = 12 THEN MakeDay(y + 1, 1, d - 31)
          ELSE MakeDay(y, m + 1, d - DaysInMonth(y, m)))
  ELSE [ok |-> TRUE, year |-> y, month |-> m, day |-> d]

(* new Date(year, month, day), month counted from 0: a year of 0..99 is     *)
(* taken as 1900 + year, a month outside 0..11 carries into the year.  The  *)
(* time value is never NaN for integer arguments of this size.              *)
NewDate(year, month, day) ==
  MakeDay((IF year \in 0..99 THEN 1900 + year ELSE year) + (month \div 12),
          (month % 12) + 1, day)

(* The digits dirName starts with *)
RECURSIVE LeadingDigits(_)
LeadingDigits(s) ==
  IF s # <<>> /\ Head(s) \in Digits THEN <<Head(s)>> \o LeadingDigits(Tail(s))
  ELSE <<>>

(* match[1] of /^(\d{6,8})(?:-(\d{4}))?-/, <<>> when there is no match: the *)
(* name starts with 6 to 8 digits and a dash follows them                   *)
DateStrOf(dirName, run) ==
  IF Len(run) \in 6..8 /\ Len(dirName) > Len(run)
       /\ dirName[Len(run) + 1] = "-"
    THEN run
  ELSE <<>>

DateOfStr(dateStr) ==
  IF dateStr = <<>> THEN NoDate
  ELSE IF Len(dateStr) = 6
    THEN NewDate(2000 + ParseInt(SubSeq(dateStr, 1, 2)),
                 ParseInt(SubSeq(dateStr, 3, 4)) - 1,
                 ParseInt(SubSeq(dateStr, 5, 6)))
  ELSE NewDate(ParseInt(SubSeq(dateStr, 1, 4)),
               ParseInt(SubSeq(dateStr, 5, 6)) - 1,
               ParseInt(SubSeq(dateStr, 7, Len(dateStr))))

parseDateFromDirName(dirName) ==
  DateOfStr(DateStrOf(dirName, LeadingDigits(dirName)))

-----------------------------------------------------------------------------
(* Calls of the pure functions of metadataExtractor.ts and statusBar.ts     *)

MaxPriorityParts == 3  \* fragments of a text given to normalizePriority
MaxPlans == 3          \* plans of a progress given to the status bar

PriorityAtoms ==
  {"P", "p", "0", "1", "2", "3", "4", "high", "Critical", "medium", "normal",
   "Low", "urgent", " "}

PriorityInputs ==
  {Undefined, Null}
    \cup UNION {[1..n -> PriorityAtoms] : n \in 0..MaxPriorityParts}

(* Directory names: a token of digits, a time or not, a name or not *)
DateTokens ==
  {y \o mm \o d :
     y \in { <<"2", "6">>, <<"2", "4">>, <<"0", "0">>, <<"2", "0", "2", "6">>,
            <<"2", "0", "2", "4">>, <<"1", "9", "0", "0">>,
            <<"0", "0", "5", "0">>, <<"2", "0", "2">> },
     mm \in { <<"0", "0">>, <<"0", "1">>, <<"0", "2">>, <<"0", "4">>,
             <<"1", "2">>, <<"1", "3">>, <<"9", "9">> },
     d \in { <<"0", "0">>, <<"0", "1">>, <<"2", "8">>, <<"2", "9">>,
            <<"3", "0">>, <<"3", "1">>, <<"3", "2">>, <<"9", "9">> }}

DirNames ==
  {t \o mid \o rest :
     t \in DateTokens \cup {<<>>, <<"1", "2">>},
     mid \in {<<>>, <<"-", "1", "4", "3", "0">>},
     rest \in {<<>>, <<"-", "x">>, <<"x">>, <<"1", "-", "x">>}}

(* PlanStatus (types.ts) *)
PlanStatuses == {"pending", "in-progress", "completed", "cancelled"}

(* The plans a progress holds, as far as the status bar reads them *)
ShownPlan(i, status, completedCount, lastModified) ==
  [path |-> IntToStr(i), status |-> status, completedCount |-> completedCount,
   totalCount |-> 2, lastModified |-> lastModified]

ShownPlans ==
  UNION {[1..n -> PlanStatuses \X {0, 1} \X {1, 2}] : n \in 0..MaxPlans}

ProgressShown(l) ==
  <<Progress([i \in 1..Len(l) |-> ShownPlan(i, l[i][1], l[i][2], l[i][3])])>>

MetaCall(op, arg, list) == [op |-> op, arg |-> arg, list |-> list, out |-> <<>>]

InitMeta ==
  /\ mtime = FirstTimes
  /\ ext = NoExt
  /\ fs = [f \in Paths |-> <<>>]
  /\ dirs = AllDirs
  /\ env = 0
  /\ task = [p \in PlanPaths |-> IdleTask]
  /\ batch = NoBatch
  /\ pure \in
       {MetaCall("normalizePriority", a, <<>>) : a \in PriorityInputs}
       \cup {MetaCall("parseDateFromDirName", a, <<>>) : a \in DirNames}
       \cup {MetaCall("setProgress", <<>>, ProgressShown(l)) : l \in ShownPlans}
       \cup {MetaCall("setProgress", <<>>, <<>>)}

CallNormalizePriority ==
  /\ pure.op = "normalizePriority"
  /\ pure.out = <<>>
  /\ pure' = [pure EXCEPT !.out = <<normalizePriority(pure.arg)>>]
  /\ UNCHANGED <<fs, dirs, env, task, batch, mtime, ext>>

CallParseDateFromDirName ==
  /\ pure.op = "parseDateFromDirName"
  /\ pure.out = <<>>
  /\ pure' = [pure EXCEPT !.out = <<parseDateFromDirName(pure.arg)>>]
  /\ UNCHANGED <<fs, dirs, env, task, batch, mtime, ext>>

CallSetProgress ==
  /\ pure.op = "setProgress"
  /\ pure.out = <<>>
  /\ pure' = [pure EXCEPT !.out = <<setProgress(pure.list)>>]
  /\ UNCHANGED <<fs, dirs, env, task, batch, mtime, ext>>

NextMeta ==
  CallNormalizePriority \/ CallParseDateFromDirName \/ CallSetProgress

SpecMeta == InitMeta /\ [][NextMeta]_vars

(* Priority (types.ts): the values other than null *)
Priorities == { <<"P", "1">>, <<"P", "2">>, <<"P", "3">> }

(* C16: normalizePriority returns P1, P2, P3 or null, whatever it is given. *)
C16_PriorityValues ==
  (pure.op = "normalizePriority" /\ pure.out # <<>>) =>
    pure.out[1] \in Priorities \cup {Null}

(* The part of C16 that holds: a result that is none of P1, P2, P3 and null *)
(* is P0, returned for a text that is P0 in either case with blanks around. *)
C16_OnlyP0Escapes ==
  (pure.op = "normalizePriority" /\ pure.out # <<>>
     /\ pure.out[1] \notin Priorities \cup {Null}) =>
       /\ pure.out[1] = <<"P", "0">>
       /\ Trim(pure.arg) \in { <<"P", "0">>, <<"p", "0">> }

(* The priority of every PlanData that extractPlanData returned is P1, P2,  *)
(* P3 or null (C16, second part; on the runs of Spec).                      *)
C16_PlanPriorityValues ==
  \A p \in PlanPaths :
    (task[p].pc = "done" /\ task[p].mode = "extract") =>
      task[p].out.plan[1].priority \in Priorities \cup {Null}

(* The date a directory name is written with: a token of 6 digits (YYMMDD,  *)
(* century 2000) or 8 digits (YYYYMMDD) at its head, a dash after it        *)
WrittenDate(dirName) ==
  LET token == LeadingDigits(dirName)
      dashed == Len(dirName) > Len(token) /\ dirName[Len(token) + 1] = "-"
  IN  IF Len(token) = 6 /\ dashed
        THEN [ok |-> TRUE, year |-> 2000 + ParseInt(SubSeq(token, 1, 2)),
              month |-> ParseInt(SubSeq(token, 3, 4)),
              day |-> ParseInt(SubSeq(token, 5, 6))]
      ELSE IF Len(token) = 8 /\ dashed
        THEN [ok |-> TRUE, year |-> ParseInt(SubSeq(token, 1, 4)),
              month |-> ParseInt(SubSeq(token, 5, 6)),
              day |-> ParseInt(SubSeq(token, 7, 8))]
      ELSE NoDate

IsCalendarDate(w) ==
  w.ok /\ w.month \in 1..12 /\ w.day \in 1..DaysInMonth(w.year, w.month)

(* C17: parseDateFromDirName returns undefined when the directory name has  *)
(* no date prefix or its token is not a date of the calendar, and a date it *)
(* returns has the year, month and day written in the token.                *)
C17_DateAsWritten ==
  (pure.op = "parseDateFromDirName" /\ pure.out # <<>>) =>
    /\ ~IsCalendarDate(WrittenDate(pure.arg)) => pure.out[1] = NoDate
    /\ pure.out[1].ok => pure.out[1] = WrittenDate(pure.arg)

(* The part of C17 that holds: a name with no run of 6 to 8 digits and a    *)
(* dash at its head gives undefined, and a token of 6 or 8 digits that is a *)
(* date of the calendar with a year above 99 gives that date.               *)
C17_ValidDatesAsWritten ==
  (pure.op = "parseDateFromDirName" /\ pure.out # <<>>) =>
    /\ DateStrOf(pure.arg, LeadingDigits(pure.arg)) = <<>>
         => pure.out[1] = NoDate
    /\ (IsCalendarDate(WrittenDate(pure.arg))
          /\ WrittenDate(pure.arg).year > 99)
         => pure.out[1] = WrittenDate(pure.arg)

(* C20: the current plan of the status bar is null when the progress is     *)
(* null or has no plan, and otherwise one of the plans: the first that is   *)
(* in progress; if there is none, the first that is pending with a          *)
(* completed phase; if there is none either, a plan no other plan was       *)
(* modified after.                                                          *)
C20_CurrentPlan ==
  (pure.op = "setProgress" /\ pure.out # <<>>) =>
    LET cur == pure.out[1].currentPlan
    IN  IF pure.list = <<>> \/ pure.list[1].plans = <<>> THEN cur = <<>>
        ELSE LET plans == pure.list[1].plans
                 ip == {i \in 1..Len(plans) : plans[i].status = "in-progress"}
                 pp == {i \in 1..Len(plans) :
                          /\ plans[i].status = "pending"
                          /\ plans[i].completedCount > 0}
             IN  /\ cur # <<>>
                 /\ \E i \in 1..Len(plans) : plans[i] = cur[1]
                 /\ IF ip # {} THEN cur[1] = plans[Min(ip)]
                    ELSE IF pp # {} THEN cur[1] = plans[Min(pp)]
                    ELSE \A j \in 1..Len(plans) :
                           plans[j].lastModified <= cur[1].lastModified

(* The status bar shows a pending plan with a completed phase although a    *)
(* plan before it in the list was modified later; no plan is in progress.   *)
C20_Witness ==
  /\ pure.op = "setProgress"
  /\ pure.out # <<>>
  /\ pure.list # <<>>
  /\ LET plans == pure.list[1].plans
         cur   == pure.out[1].currentPlan
     IN  /\ Len(plans) >= 2
         /\ \A i \in 1..Len(plans) : plans[i].status # "in-progress"
         /\ cur # <<>>
         /\ cur[1].status = "pending"
         /\ cur[1].completedCount > 0
         /\ cur[1] # plans[1]
         /\ plans[1].lastModified > cur[1].lastModified
-----------------------------------------------------------------------------
(* Checkbox lists                                                           *)

IsCheckboxLine(l) == l.k = "checkbox"

(* The box of the line is checked: x in either case *)
IsChecked(l) == l.val \in {<<"x">>, <<"X">>}

(* C18: when the phases come from the checkbox list, there is one phase per *)
(* checkbox line, completed when the box is checked and pending when it is  *)
(* not, whatever the link text and the text after the link say; none is in  *)
(* progress.                                                                *)
C18_CheckboxStatus ==
  \A p \in PlanPaths :
    task[p].pcontent # <<>> =>
      LET rs    == Strategies(task[p].pcontent[1], p)
          boxes == SelectSeq(task[p].pcontent[1].lines, IsCheckboxLine)
      IN  /\ Len(rs[5]) = Len(boxes)
          /\ \A i \in 1..Len(boxes) :
               /\ rs[5][i].status
                    = IF IsChecked(boxes[i]) THEN "completed" ELSE "pending"
               /\ rs[5][i].status # "in-progress"
          /\ NonEmptyStrategies(rs) = {5} => task[p].parsed = rs[5]

(* A run parsed, from a checkbox list, a completed phase whose line says in *)
(* progress and a pending phase whose line says complete.                   *)
C18_Witness ==
  \E p \in PlanPaths :
    /\ task[p].pc = "done"
    /\ task[p].pcontent # <<>>
    /\ task[p].pcontent[1].lines = <<LineCheckedKeyword, LineUncheckedKeyword>>
    /\ Len(task[p].parsed) = 2
    /\ task[p].parsed[1].status = "completed"
    /\ task[p].parsed[2].status = "pending"
-----------------------------------------------------------------------------
(* planProject.ts: the file watchers and the debounce timer of one          *)
(* PlansProject.  Time is counted in milliseconds.  A timer that is set is  *)
(* a record of the timers pending in the event loop; it runs its callback   *)
(* at or after its due time.  ext keeps, besides the fields of the project, *)
(* the times of the file events and of the refreshes the timers started.    *)

DEBOUNCE_DELAY == 500

MaxTime == 1500        \* the clock stops here
TickMs == 250          \* the clock's step
MaxEvents == 3         \* file events of a run

WatchedFiles == {"plan.md", "phase-*.md"}

(* The project after construction *)
NewProject(autoRefresh) ==
  [op |-> "watch", autoRefresh |-> autoRefresh, watching |-> FALSE,
   now |-> 0, timers |-> {}, debounceTimer |-> 0, nextTimer |-> 1,
   events |-> <<>>, starts |-> <<>>, disposed |-> FALSE]

(* A clearTimeout that does nothing (ruled out by C19) *)
KeepTimeout(timers, id) == timers

(* clearTimeout(id) *)
ClearTimeout(timers, id) == {t \in timers : t.id # id}

(* setTimeout(() => this.refresh(), DEBOUNCE_DELAY), kept in debounceTimer *)
SetDebounceTimer(e) ==
  [e EXCEPT !.timers = @ \cup {[id |-> e.nextTimer,
                                due |-> e.now + DEBOUNCE_DELAY]},
            !.debounceTimer = e.nextTimer,
            !.nextTimer = @ + 1]

(* handleChange (lines 131-141) *)
handleChange(e) ==
  SetDebounceTimer(
    [e EXCEPT !.timers = IF e.debounceTimer # 0
                           THEN ClearTimeout(@, e.debounceTimer)
                         ELSE @])

(* initialize: the watchers are set up when autoRefresh is on *)
WatchInitialize ==
  /\ ~ext.watching
  /\ ~ext.disposed
  /\ ext.autoRefresh
  /\ ext' = [ext EXCEPT !.watching = TRUE]
  /\ UNCHANGED <<fs, dirs, env, task, batch, pure, mtime>>

(* A watcher reports that a file was changed, created or deleted *)
WatchEvent(file) ==
  /\ ext.watching
  /\ ~ext.disposed
  /\ Len(ext.events) < MaxEvents
  /\ ext' = [handleChange(ext) EXCEPT
               !.events = Append(@, [at |-> ext.now, file |-> file])]
  /\ UNCHANGED <<fs, dirs, env, task, batch, pure, mtime>>

(* A pending timer runs its callback: this.refresh() starts *)
WatchTimer(t) ==
  /\ t \in ext.timers
  /\ ext.now >= t.due
  /\ ext' = [ext EXCEPT
               !.timers = @ \ {t},
               !.starts = Append(@, [at |-> ext.now, after |-> Len(ext.events)])]
  /\ UNCHANGED <<fs, dirs, env, task, batch, pure, mtime>>

(* dispose (lines 324-335) *)
WatchDispose ==
  /\ ~ext.disposed
  /\ ext' = [ext EXCEPT
               !.timers = IF ext.debounceTimer # 0
                            THEN ClearTimeout(@, ext.debounceTimer)
                          ELSE @,
               !.disposed = TRUE]
  /\ UNCHANGED <<fs, dirs, env, task, batch, pure, mtime>>

(* Time passes *)
WatchTick ==
  /\ ext.now + TickMs <= MaxTime
  /\ ext' = [ext EXCEPT !.now = @ + TickMs]
  /\ UNCHANGED <<fs, dirs, env, task, batch, pure, mtime>>

InitWatch ==
  /\ mtime = FirstTimes
  /\ fs = [f \in Paths |-> <<>>]
  /\ dirs = AllDirs
  /\ env = 0
  /\ task = [p \in PlanPaths |-> IdleTask]
  /\ batch = NoBatch
  /\ pure = NoPure
  /\ ext \in {NewProject(a) : a \in BOOLEAN}

NextWatch ==
  \/ WatchInitialize
  \/ \E file \in WatchedFiles : WatchEvent(file)
  \/ \E t \in ext.timers : WatchTimer(t)
  \/ WatchDispose
  \/ WatchTick

SpecWatch == InitWatch /\ [][NextWatch]_vars

(* The refreshes the timers started when i events had been reported *)
StartsAfter(i) == {k \in 1..Len(ext.starts) : ext.starts[k].after = i}

(* Event i was followed by another event before the delay had elapsed *)
IsSuperseded(i) ==
  i < Len(ext.events)
    /\ ext.events[i + 1].at - ext.events[i].at < DEBOUNCE_DELAY

(* C19: at most one debounce timer is pending, and it is the one the latest *)
(* event set; a refresh the watcher starts comes no earlier than the delay  *)
(* after the latest event; an event followed by another within the delay    *)
(* starts no refresh; and once no timer is pending, the last event of a     *)
(* burst has started exactly one refresh.  Without auto-refresh no refresh  *)
(* is started.                                                              *)
C19_Debounced ==
  /\ Cardinality(ext.timers) <= 1
  /\ \A t \in ext.timers :
       /\ t.id = ext.debounceTimer
       /\ ext.events # <<>>
       /\ t.due = ext.events[Len(ext.events)].at + DEBOUNCE_DELAY
  /\ \A k \in 1..Len(ext.starts) :
       /\ ext.starts[k].after >= 1
       /\ ext.starts[k].at
            >= ext.events[ext.starts[k].after].at + DEBOUNCE_DELAY
  /\ \A i \in 1..Len(ext.events) :
       /\ Cardinality(StartsAfter(i)) <= 1
       /\ IsSuperseded(i) => StartsAfter(i) = {}
  /\ (ext.events # <<>> /\ ext.timers = {} /\ ~ext.disposed) =>
       Cardinality(StartsAfter(Len(ext.events))) = 1
  /\ ~ext.autoRefresh => ext.starts = <<>>

(* Three events, each within the delay of the one before and not all at the *)
(* same time, have started one refresh, after the third.                    *)
C19_Witness ==
  /\ Len(ext.events) = 3
  /\ IsSuperseded(1)
  /\ IsSuperseded(2)
  /\ ext.events[3].at > ext.events[1].at
  /\ ext.timers = {}
  /\ ~ext.disposed
  /\ Len(ext.starts) = 1
  /\ ext.starts[1].after = 3
-----------------------------------------------------------------------------
(* Calls of the single strategies of planParser.ts on a document            *)

MaxHeadingLines == 5   \* lines of a document given to parseHeadingBased

LineHeadingTwo    == Heading(<<"2">>, <<" ">>, <<"Build">>)
LineHeadingInline ==
  Heading(<<"3">>, <<":", " ">>,
          <<"Ship", " ", "-", " ", "Status", ":", " ", "Done">>)
LineStatusDone    == StatusLine(<<" ", "Done">>)

HeadingPool ==
  {LineHeading, LineHeadingTwo, LineHeadingInline, LineStatus, LineStatusDone,
   TextLine}

HeadingDocs == UNION {[1..n -> HeadingPool] : n \in 0..MaxHeadingLines}

(* Tables: a header and up to MaxTableRows rows under it *)
MaxTableRows == 3

HeaderPhaseStatus == Row(<< <<"Phase">>, <<"Status">> >>)
HeaderNameStatus  == Row(<< <<"Name">>, <<"Status">>, <<"Link">> >>)

RowUnnumbered  == RowNoNumber
RowNotAPhase   == Row(<< <<"4">>, <<"Notes">>, <<"n/a">> >>)
RowPhaseText   == Row(<< <<"Phase", " ", "0", "7">>, <<"WIP">> >>)
RowEmptyName   == Row(<< <<"5">>, <<>>, <<"Done">>,
                         LinkTo(<<"Phase", " ", "5">>, "5") >>)

TableHeaders == {RowHeader, HeaderPhaseStatus, HeaderNameStatus}

TableRowPool ==
  {RowSeparator, RowOne, RowTwo, RowNoLink, RowUnnumbered, RowNotAPhase,
   RowPhaseText, RowEmptyName}

(* The table of the test "should parse standard table format" *)
StandardTable ==
  << RowHeader, RowSeparator,
     Row(<< <<"1">>, <<"Setup">>, <<"Complete">>,
            LinkTo(<<"Phase", " ", "1">>, "1") >>),
     Row(<< <<"2">>, <<"Build">>, <<"In", " ", "Progress">>,
            LinkTo(<<"Phase", " ", "2">>, "2") >>),
     Row(<< <<"3">>, <<"Ship">>, <<"Pending">>,
            LinkTo(<<"Phase", " ", "3">>, "3") >>) >>

RowDocs ==
  {<<h>> \o rows :
     h \in TableHeaders,
     rows \in UNION {[1..n -> TableRowPool] : n \in 0..MaxTableRows}}
    \cup {StandardTable}

InitParse ==
  /\ mtime = FirstTimes
  /\ ext = NoExt
  /\ fs = [f \in Paths |-> <<>>]
  /\ dirs = AllDirs
  /\ env = 0
  /\ task = [p \in PlanPaths |-> IdleTask]
  /\ batch = NoBatch
  /\ pure \in
       {MetaCall("parseHeadingBased", <<>>, l) : l \in HeadingDocs}
       \cup {MetaCall("parseMultiColumnTable", <<>>, l) : l \in RowDocs}

CallParseHeadingBased ==
  /\ pure.op = "parseHeadingBased"
  /\ pure.out = <<>>
  /\ pure' = [pure EXCEPT !.out = <<parseHeadingBased(pure.list, ThePlan)>>]
  /\ UNCHANGED <<fs, dirs, env, task, batch, mtime, ext>>

CallParseMultiColumnTable ==
  /\ pure.op = "parseMultiColumnTable"
  /\ pure.out = <<>>
  /\ pure' = [pure EXCEPT
                !.out = <<parseMultiColumnTable(pure.list, PathDirname(ThePlan),
                                                ThePlan)>>]
  /\ UNCHANGED <<fs, dirs, env, task, batch, mtime, ext>>

NextParse ==
  CallParseHeadingBased \/ CallParseMultiColumnTable

SpecParse == InitParse /\ [][NextParse]_vars

(* The places of the phase headings ### Phase <N>: <name> in a document *)
PhaseHeadings(lines) ==
  {i \in 1..Len(lines) :
     /\ lines[i].k = "heading"
     /\ AllDigits(lines[i].num)
     /\ lines[i].sep # <<>>
     /\ lines[i].name # <<>>}

(* The k-th smallest element of a set of numbers *)
RECURSIVE NthOf(_, _)
NthOf(S, k) == IF k = 1 THEN Min(S) ELSE NthOf(S \ {Min(S)}, k - 1)

Max(S) == CHOOSE x \in S : \A y \in S : y <= x

(* The text the document gives as status at place i: of a status line the   *)
(* text after the colon, of a heading that goes on with "- Status:" the     *)
(* text after that colon; <<>> where the line gives none                    *)
StatusGiven(lines, i) ==
  IF lines[i].k = "status" THEN lines[i].val
  ELSE IF lines[i] = LineHeadingInline THEN <<" ", "Done">>
  ELSE <<>>

(* C21: the heading-based strategy gives one phase per phase heading, in    *)
(* the order of the document and with the heading's number; the status of   *)
(* a phase is that of the last status line from its heading up to the next  *)
(* heading, and pending when there is none; status lines above the first    *)
(* heading count for nothing.                                               *)
C21_HeadingSections ==
  (pure.op = "parseHeadingBased" /\ pure.out # <<>>) =>
    LET lines  == pure.list
        phases == pure.out[1]
        heads  == PhaseHeadings(lines)
    IN  /\ Len(phases) = Cardinality(heads)
        /\ \A k \in 1..Len(phases) :
             LET h    == NthOf(heads, k)
                 next == IF k = Len(phases) THEN Len(lines) + 1
                         ELSE NthOf(heads, k + 1)
                 said == {i \in h..(next - 1) : StatusGiven(lines, i) # <<>>}
             IN  /\ phases[k].phase = ParseInt(lines[h].num)
                 /\ phases[k].status
                      = IF said = {} THEN "pending"
                        ELSE normalizeStatus(StatusGiven(lines, Max(said)))

(* A status line above the first heading, a heading with two status lines   *)
(* of which the last says done, and a heading with none: completed, pending *)
C21_Witness ==
  /\ pure.op = "parseHeadingBased"
  /\ pure.out # <<>>
  /\ pure.list = <<LineStatusDone, LineHeading, LineStatus, LineStatusDone,
                   LineHeadingTwo>>
  /\ Len(pure.out[1]) = 2
  /\ pure.out[1][1].status = "completed"
  /\ pure.out[1][2].status = "pending"

-----------------------------------------------------------------------------
(* Rows of a table.  The cells of a row are its texts between the pipes,    *)
(* trimmed, the empty ones left out; a column is a place in the header's    *)
(* cells.                                                                   *)

CellsOf(line) ==
  SelectSeq([i \in 1..Len(line.cells) |-> Trim(line.cells[i])], IsNonEmpty)

(* The place of the first header cell that P accepts, 0 if none *)
ColumnOf(header, P(_)) ==
  LET cells == [i \in 1..Len(CellsOf(header)) |-> ToLower(CellsOf(header)[i])]
      hits  == {i \in 1..Len(cells) : P(cells[i])}
  IN  IF hits = {} THEN 0 ELSE Min(hits)

IsStatusTitle(c) == Includes(c, <<"status">>)
IsNumberTitle(c) == c \in { <<"#">>, <<"order">> }
IsPhaseTitle(c)  == c \in { <<"phase">>, <<"phase", " ", "name">> }

StatusColumn(header) == ColumnOf(header, IsStatusTitle)

(* The number/phase column: the number column, the phase column without one *)
NumberColumn(header) ==
  IF ColumnOf(header, IsNumberTitle) # 0 THEN ColumnOf(header, IsNumberTitle)
  ELSE ColumnOf(header, IsPhaseTitle)

(* The rows under the header at place 1, up to the first line that is no    *)
(* row, that have a status cell with a status keyword or emoji              *)
AcceptedRows(lines) ==
  {r \in 2..Len(lines) :
     /\ \A j \in 2..r : lines[j].k = "row"
     /\ lines[r] # RowSeparator
     /\ Len(CellsOf(lines[r])) >= StatusColumn(lines[1])
     /\ isValidStatus(CellsOf(lines[r])[StatusColumn(lines[1])])}

(* The number a row is given as k-th accepted row of its table *)
NumberOfRow(header, row, k) ==
  IF NumberColumn(header) # 0 /\ Len(CellsOf(row)) >= NumberColumn(header)
       /\ FirstDigits(CellsOf(row)[NumberColumn(header)]) # <<>>
    THEN ParseInt(FirstDigits(CellsOf(row)[NumberColumn(header)]))
  ELSE k

CellAt(line, column) ==
  IF column >= 1 /\ column <= Len(line.cells) THEN Trim(line.cells[column])
  ELSE <<>>

(* The rows under the header at place 1 whose cell in the status column     *)
(* holds a status keyword or emoji                                          *)
RowsWithStatus(lines) ==
  {r \in 2..Len(lines) :
     /\ \A j \in 2..r : lines[j].k = "row"
     /\ lines[r] # RowSeparator
     /\ isValidStatus(CellAt(lines[r], StatusColumn(lines[1])))}

(* C30: every row whose cell in the status column holds a status keyword    *)
(* is a phase, a row with an empty cell to the left of that column too, and *)
(* the status and the number of the phase are read from the row's cells in  *)
(* the status column and in the number/phase column.                        *)
C30_CellsByColumn ==
  (pure.op = "parseMultiColumnTable" /\ pure.out # <<>>) =>
    LET lines  == pure.list
        phases == pure.out[1]
        rows   == RowsWithStatus(lines)
    IN  /\ Len(phases) = Cardinality(rows)
        /\ \A k \in 1..Len(phases) :
             LET row == lines[NthOf(rows, k)]
                 num == FirstDigits(CellAt(row, NumberColumn(lines[1])))
             IN  /\ phases[k].status
                      = normalizeStatus(CellAt(row, StatusColumn(lines[1])))
                 /\ phases[k].phase = IF num # <<>> THEN ParseInt(num) ELSE k

(* The part of C30 that holds: on tables whose rows have no empty cell to   *)
(* the left of the status column the phases are read by column.             *)
C30_ByColumnWithoutGaps ==
  (pure.op = "parseMultiColumnTable" /\ pure.out # <<>>
     /\ \A r \in 2..Len(pure.list) : pure.list[r] # RowEmptyName)
    => C30_CellsByColumn

-----------------------------------------------------------------------------
(* plansTreeProvider.ts: the tree items of the phases of a plan             *)

(* this.id of a PhaseTreeItem: `${plan.id}-phase-${phase.phase}` *)
PhaseTreeItemId(planId, phase) == <<planId, "-phase-">> \o IntToStr(phase.phase)

(* getChildren of a plan: plan.phases.map(phase => new PhaseTreeItem(...)) *)
PhaseTreeItemIds(planId, phases) ==
  [i \in 1..Len(phases) |-> PhaseTreeItemId(planId, phases[i])]

(* C27: the tree item ids of the phases that parsePlanTable returned for a  *)
(* plan are pairwise distinct.                                              *)
C27_DistinctPhaseIds ==
  \A p \in PlanPaths :
    task[p].pc = "done" =>
      LET ids == PhaseTreeItemIds(DirName(p), Returned(task[p]))
      IN  \A i, j \in 1..Len(ids) : i # j => ids[i] # ids[j]

(* The part of C27 that holds: phases whose numbers differ have ids that    *)
(* differ, and two phases with the same id have the same number.            *)
C27_IdsFollowNumbers ==
  \A p \in PlanPaths :
    task[p].pc = "done" =>
      LET phases == Returned(task[p])
          ids    == PhaseTreeItemIds(DirName(p), phases)
      IN  \A i, j \in 1..Len(ids) :
            (ids[i] = ids[j]) <=> (phases[i].phase = phases[j].phase)

-----------------------------------------------------------------------------
(* The scan loop of parseMultiColumnTable, one iteration at a time          *)

MaxScanLines == 4      \* lines of a document given to the scan loop

ScanPool == {RowGap, RowHeader, RowOne, RowDependsOne, TextLine}

ScanDocs == UNION {[1..n -> ScanPool] : n \in 0..MaxScanLines}

(* parseTableStartingFrom is a function of the lines and the start line:   *)
(* its value and the header it takes, for every start line of a document   *)
TableResults(lines) ==
  [n \in 0..(Len(lines) - 1) |->
     [result |-> parseTableStartingFrom(lines, n, PathDirname(ThePlan),
                                        ThePlan),
      headerIndex |-> TableHeader(lines, n).headerIndex]]

(* The loop's state: the document with the results of the calls it can    *)
(* make, scanStartLine, the header lines the iterations took (kept for    *)
(* the properties), and the value returned once the loop is left          *)
ScanState(lines) ==
  [op |-> "scan", lines |-> lines, results |-> TableResults(lines),
   scanStartLine |-> 0, taken |-> <<>>, pc |-> "loop", out |-> <<>>]

InitScan ==
  /\ pure \in {ScanState(l) : l \in ScanDocs}
  /\ fs = [p \in Paths |-> <<>>]
  /\ dirs = {}
  /\ env = 0
  /\ task = [p \in PlanPaths |-> IdleTask]
  /\ batch = NoBatch
  /\ mtime = [p \in PlanPaths |-> 0]
  /\ ext = NoExt

(* The header line an iteration takes, if it finds one *)
TakenWith(taken, headerIndex) ==
  IF headerIndex = -1 THEN taken ELSE Append(taken, headerIndex)

(* The body of the while loop (lines 240-253), given the iteration's result *)
ScanBody(s, result) ==
  IF Len(result.phases) > 0
    THEN [s EXCEPT !.pc = "returned", !.out = result.phases]
  ELSE IF result.nextScanLine <= s.scanStartLine
    THEN [s EXCEPT !.pc = "stopped"]
  ELSE [s EXCEPT !.scanStartLine = result.nextScanLine]

(* One iteration: scanStartLine < lines.length *)
ScanIteration ==
  /\ pure.pc = "loop"
  /\ pure.scanStartLine < Len(pure.lines)
  /\ pure' = ScanBody(
               [pure EXCEPT !.taken =
                  TakenWith(@, pure.results[pure.scanStartLine].headerIndex)],
               pure.results[pure.scanStartLine].result)
  /\ UNCHANGED <<fs, dirs, env, task, batch, mtime, ext>>

(* The loop condition fails: return [] (line 256) *)
ScanExit ==
  /\ pure.pc = "loop"
  /\ pure.scanStartLine >= Len(pure.lines)
  /\ pure' = [pure EXCEPT !.pc = "stopped"]
  /\ UNCHANGED <<fs, dirs, env, task, batch, mtime, ext>>

NextScan == ScanIteration \/ ScanExit

(* The loop is synchronous code: it always takes its next step *)
SpecScan == InitScan /\ [][NextScan]_vars /\ WF_vars(NextScan)

IsIncreasing(s) == \A i, j \in 1..Len(s) : i < j => s[i] < s[j]

NoStatusTableFrom(lines, startLine) ==
  TableHeader(lines, startLine).headerIndex = -1

(* C29: every iteration of the scan loop returns phases, or resumes from a  *)
(* strictly greater line index, or stops with no table with a status column *)
(* left; the header lines taken are strictly increasing, so none is taken   *)
(* twice; and the loop is left on every document.                           *)
C29_ScanTerminates ==
  /\ [][pure.pc = "loop" =>
          \/ pure'.pc = "returned" /\ pure'.out # <<>>
          \/ pure'.pc = "loop" /\ pure'.scanStartLine > pure.scanStartLine
          \/ /\ pure'.pc = "stopped"
             /\ NoStatusTableFrom(pure.lines, pure.scanStartLine)]_vars
  /\ [](IsIncreasing(pure.taken) /\ pure.scanStartLine <= Len(pure.lines))
  /\ <>(pure.pc # "loop")

(* A table without a phase column was passed over, the scan resumed after *)
(* it and returned the phases of a later table.                           *)
C29_Witness ==
  /\ pure.pc = "returned"
  /\ Len(pure.taken) >= 2
  /\ pure.out = parseMultiColumnTable(pure.lines, PathDirname(ThePlan), ThePlan)

(* The loop returns what parseMultiColumnTable returns *)
ScanGivesParse ==
  pure.pc # "loop" =>
    pure.out = parseMultiColumnTable(pure.lines, PathDirname(ThePlan), ThePlan)

-----------------------------------------------------------------------------
(* extractPhaseMetadata on phase files that mix the three formats           *)

MaxPhaseLines == 3     \* lines of a phase file given to extractPhaseMetadata

RowStatus    == Row(<< <<"Status">>, <<"Complete">> >>)
RowEffort    == Row(<< <<"Effort">>, <<"4", "h">> >>)
BoldStatus   == Bold(<<"Status">>, <<" ", "In", " ", "Progress">>)
BoldEffort   == Bold(<<"Effort">>, <<" ", "1", "h">>)

PhaseLinePool == {RowStatus, RowEffort, BoldStatus, BoldEffort, TextLine}

PhaseFrontmatters ==
  { NoFrontmatter,
    Frontmatter("data", <<"Todo">>, <<"3", "h">>),
    Frontmatter("data", Undefined, <<"3", "h">>),
    Frontmatter("malformed", Undefined, Undefined) }

PhaseDocs ==
  {Doc(fm, l) : fm \in PhaseFrontmatters,
                l \in UNION {[1..n -> PhaseLinePool] : n \in 0..MaxPhaseLines}}

(* Plan files whose header lines stand at the start or near the end of the *)
(* header section, with and without a frontmatter block before them        *)
PlanHeaderPool ==
  { <<>>,
    <<Bold(<<"Status", ":">>, <<" ", "Done">>)>>,
    <<Bold(<<"Priority", ":">>, <<" ", "High">>)>>,
    <<Blank(HEADER_LINES - 1), Bold(<<"Status", ":">>, <<" ", "Done">>)>>,
    <<Blank(HEADER_LINES - 1), Bold(<<"Priority", ":">>, <<" ", "High">>)>>,
    <<Blank(HEADER_LINES), Bold(<<"Status", ":">>, <<" ", "Done">>)>> }

PlanFrontmatters ==
  { NoFrontmatter,
    Frontmatter("malformed", Undefined, Undefined),
    FrontmatterP("data", <<"Cancelled">>, Undefined, <<"low">>) }

PlanMetaDocs ==
  {Doc(fm, h \o b) : fm \in PlanFrontmatters, h \in PlanHeaderPool,
                     b \in BodyPool}

InitFormats ==
  /\ mtime = FirstTimes
  /\ ext = NoExt
  /\ fs = [f \in Paths |-> <<>>]
  /\ dirs = AllDirs
  /\ env = 0
  /\ task = [p \in PlanPaths |-> IdleTask]
  /\ batch = NoBatch
  /\ pure \in {MetaCall("extractPhaseMetadata", d, <<>>) : d \in PhaseDocs}
              \cup {MetaCall("extractPlanData", d, <<>>) : d \in PlanMetaDocs}

(* extractPhaseMetadata of a readable file with the content pure.arg *)
CallExtractPhaseMetadata ==
  /\ pure.op = "extractPhaseMetadata"
  /\ pure.out = <<>>
  /\ pure' = [pure EXCEPT !.out = <<PhaseMetadataOf(pure.arg)>>]
  /\ UNCHANGED <<fs, dirs, env, task, batch, mtime, ext>>

(* extractPlanData of a plan file that keeps the content pure.arg *)
CallExtractPlanData ==
  /\ pure.op = "extractPlanData"
  /\ pure.out = <<>>
  /\ pure' = [pure EXCEPT
                !.out = <<PlanData(ThePlan, pure.arg, mtime[ThePlan],
                                   ParsePhases(pure.arg, ThePlan))>>]
  /\ UNCHANGED <<fs, dirs, env, task, batch, mtime, ext>>

NextFormats == CallExtractPhaseMetadata \/ CallExtractPlanData

SpecFormats == InitFormats /\ [][NextFormats]_vars

(* What a phase file says in each format: the places of its two-column   *)
(* table rows and of its **key**: value lines with a given field name     *)
TableRowsOf(d, field) ==
  {i \in 1..Len(d.lines) :
     /\ d.lines[i].k = "row"
     /\ Len(d.lines[i].cells) = 2
     /\ ToLower(Trim(d.lines[i].cells[1])) = field}

BoldLinesOf(d, field) ==
  {i \in 1..Len(d.lines) :
     /\ d.lines[i].k = "bold"
     /\ LineIndex(d, i) < INLINE_HEADER_LINES
     /\ ToLower(Trim(d.lines[i].name)) = field}

LastCell(d, S)  == IF S = {} THEN Undefined ELSE Trim(d.lines[Max(S)].cells[2])
LastValue(d, S) == IF S = {} THEN Undefined ELSE Trim(d.lines[Max(S)].val)

FrontmatterHasStatus(d) == d.fm.kind = "data" /\ ~Falsy(d.fm.status)

(* C23: extractPhaseMetadata returns what the first of overview table,      *)
(* inline metadata and frontmatter with a status says, status and effort    *)
(* both from that format alone, and null when no format has a status.       *)
C23_FirstFormatWithStatus ==
  (pure.op = "extractPhaseMetadata" /\ pure.out # <<>>) =>
    LET d     == pure.arg
        m     == pure.out[1]
        table == TableRowsOf(d, <<"status">>)
        bold  == BoldLinesOf(d, <<"status">>)
    IN  IF table # {}
          THEN /\ m.ok
               /\ m.status = normalizeStatus(LastCell(d, table))
               /\ m.effort = LastCell(d, TableRowsOf(d, <<"effort">>))
        ELSE IF bold # {}
          THEN /\ m.ok
               /\ m.status = normalizeStatus(LastValue(d, bold))
               /\ m.effort = LastValue(d, BoldLinesOf(d, <<"effort">>))
        ELSE IF FrontmatterHasStatus(d)
          THEN /\ m.ok
               /\ m.status = normalizeStatus(d.fm.status)
               /\ m.effort = d.fm.effort
        ELSE ~m.ok

(* A file with a status in its table, and an effort only in a later format: *)
(* the result has the table's status and no effort.                         *)
C23_Witness ==
  /\ pure.op = "extractPhaseMetadata" /\ pure.out # <<>>
  /\ TableRowsOf(pure.arg, <<"status">>) # {}
  /\ TableRowsOf(pure.arg, <<"effort">>) = {}
  /\ BoldLinesOf(pure.arg, <<"status">>) # {}
  /\ BoldLinesOf(pure.arg, <<"effort">>) # {}
  /\ FrontmatterHasStatus(pure.arg)
  /\ pure.out[1].ok
  /\ pure.out[1].status = "completed"
  /\ pure.out[1].effort = Undefined

(* A file with an effort in every format and a status in none: null *)
C23_WitnessNull ==
  /\ pure.op = "extractPhaseMetadata" /\ pure.out # <<>>
  /\ TableRowsOf(pure.arg, <<"effort">>) # {}
  /\ BoldLinesOf(pure.arg, <<"effort">>) # {}
  /\ pure.arg.fm.kind = "data" /\ ~Falsy(pure.arg.fm.effort)
  /\ ~pure.out[1].ok

(* The same document without its frontmatter block *)
WithoutFrontmatter(d) == Doc(NoFrontmatter, d.lines)

(* C24: a plan file with malformed frontmatter gives the plan data that the *)
(* same document without frontmatter gives.                                 *)
C24_MalformedAsAbsent ==
  (/\ pure.op = "extractPlanData"
   /\ pure.out # <<>>
   /\ pure.arg.fm.kind = "malformed") =>
    pure.out[1] = PlanData(ThePlan, WithoutFrontmatter(pure.arg),
                           mtime[ThePlan],
                           ParsePhases(WithoutFrontmatter(pure.arg), ThePlan))

(* The part of C24 that holds: with malformed frontmatter no field comes    *)
(* from the frontmatter; status and priority are those of the header        *)
(* patterns on the file's first HEADER_LINES lines, else the calculated     *)
(* status and null.                                                         *)
C24_MalformedFallsThrough ==
  (/\ pure.op = "extractPlanData"
   /\ pure.out # <<>>
   /\ pure.arg.fm.kind = "malformed") =>
    /\ pure.out[1].status =
         IF extractFromHeader(pure.arg).status # ""
           THEN extractFromHeader(pure.arg).status
         ELSE calculatePlanStatus(pure.out[1].phases)
    /\ pure.out[1].priority =
         IF ~Falsy(HeaderPriority(pure.arg)) THEN HeaderPriority(pure.arg)
         ELSE Null
    /\ pure.out[1].phases = ParsePhases(WithoutFrontmatter(pure.arg), ThePlan)

-----------------------------------------------------------------------------
(* One run of extractPlanData while the plan file is rewritten              *)

SnapshotDocs ==
  { Doc(FrontmatterP("data", Undefined, Undefined, <<"P", "0">>),
        <<RowHeader, RowSeparator, RowOne>>),
    Doc(NoFrontmatter,
        <<Bold(<<"Priority", ":">>, <<" ", "High">>), RowHeader, RowSeparator,
          RowOne, RowTwo>>),
    Doc(NoFrontmatter, <<TextLine>>) }

(* The plan file is saved with another content while the run is in flight *)
EnvWrite(p, d) ==
  /\ env > 0
  /\ Running(task[p])
  /\ fs[p] # <<>>
  /\ fs[p] # <<d>>
  /\ fs' = [fs EXCEPT ![p] = <<d>>]
  /\ mtime' = [mtime EXCEPT ![p] = @ + 2]
  /\ env' = env - 1
  /\ UNCHANGED <<dirs, task, batch, pure, ext>>

InitSnapshot ==
  /\ dirs = AllDirs
  /\ fs \in {Workspace(plan, phase1, <<>>) :
               plan \in Present(SnapshotDocs),
               phase1 \in Optional({PhaseTable(<<"In", " ", "Progress">>)})}
  /\ env = MaxEnvDeletes
  /\ task = [p \in PlanPaths |->
               IF p = ThePlan THEN StartedTask("extract") ELSE IdleTask]
  /\ batch = NoBatch
  /\ pure = NoPure
  /\ mtime = FirstTimes
  /\ ext = NoExt

NextSnapshot ==
  \/ XpdRead(ThePlan)
  \/ XpdStat(ThePlan)
  \/ PptRead(ThePlan)
  \/ \E i \in 1..Len(task[ThePlan].est) : EnrichAccess(ThePlan, i)
  \/ \E i \in 1..Len(task[ThePlan].est) : EnrichRead(ThePlan, i)
  \/ EnrichJoin(ThePlan)
  \/ \E d \in SnapshotDocs : EnvWrite(ThePlan, d)

SpecSnapshot == InitSnapshot /\ [][NextSnapshot]_vars

(* The record's phases are those of document d, and so is its priority *)
IsRecordOf(plan, d, p) ==
  /\ plan.priority = PlanPriority(FrontmatterPriority(d), HeaderPriority(d))
  /\ Len(plan.phases) = Len(ParsePhases(d, p))
  /\ \A i \in 1..Len(plan.phases) :
       SamePhase(plan.phases[i], ParsePhases(d, p)[i])

(* C26: the phases and the metadata of the record extractPlanData returns   *)
(* are those of one content of the plan file.                               *)
C26_OneSnapshot ==
  (task[ThePlan].pc = "done" /\ task[ThePlan].out.kind = "plan") =>
    \E d \in SnapshotDocs : IsRecordOf(task[ThePlan].out.plan[1], d, ThePlan)

(* What holds: the metadata are those of the content extractPlanData read,  *)
(* the phases those of the content parsePlanTable read.                     *)
C26_EachFromItsRead ==
  (task[ThePlan].pc = "done" /\ task[ThePlan].out.kind = "plan") =>
    /\ IsRecordOf([task[ThePlan].out.plan[1] EXCEPT
                     !.priority = PlanPriority(
                        FrontmatterPriority(task[ThePlan].pcontent[1]),
                        HeaderPriority(task[ThePlan].pcontent[1]))],
                  task[ThePlan].pcontent[1], ThePlan)
    /\ task[ThePlan].out.plan[1].priority =
         PlanPriority(FrontmatterPriority(task[ThePlan].content[1]),
                      HeaderPriority(task[ThePlan].content[1]))

-----------------------------------------------------------------------------
(* extension.ts: activate, the workspace and configuration handlers,        *)
(* initializeProjects and deactivate, with the module-level projects list   *)

MaxInitRuns == 3       \* calls of initializeProjects (the first is activate's)

InitRunIds == 1..MaxInitRuns

FolderNames == <<"f1", "f2">>

(* vscode.workspace.workspaceFolders: <<>> stands for undefined *)
FolderLists == {<<>>, <<"f1">>, <<"f1", "f2">>}

(* What a folder holds at its plans path: no directory, a directory without *)
(* a plan, or a directory with plans                                        *)
FolderKinds == {"none", "empty", "plans"}

IdleInit == [pc |-> "idle", folders |-> <<>>, autoRefresh |-> FALSE, i |-> 0,
             proj |-> 0]

(* new PlansProject(folder, settings) followed by the synchronous part of   *)
(* initialize(): watchers are set up when the plans directory exists and    *)
(* autoRefresh is set                                                       *)
NewPlansProject(folder, kind, autoRefresh) ==
  [folder |-> folder, watching |-> (kind # "none" /\ autoRefresh),
   disposed |-> FALSE]

(* initialize() returns progress !== null && progress.plans.length > 0 *)
InitializeSucceeds(kind) == kind = "plans"

(* projects.forEach(p => p.dispose()); projects = [] *)
DisposeProjects(e) ==
  [e EXCEPT !.objs = [id \in DOMAIN e.objs |->
                        IF \E k \in 1..Len(e.projects) : e.projects[k] = id
                          THEN [e.objs[id] EXCEPT !.disposed = TRUE]
                        ELSE e.objs[id]],
            !.projects = <<>>]

(* The loop of initializeProjects reaches folder i: the project is created  *)
(* and the run waits for its initialize()                                   *)
BeginFolder(e, r, i) ==
  [e EXCEPT !.objs = Append(@, NewPlansProject(e.runs[r].folders[i],
                                               e.kind[e.runs[r].folders[i]],
                                               e.runs[r].autoRefresh)),
            !.runs[r].pc = "await",
            !.runs[r].i = i,
            !.runs[r].proj = Len(e.objs) + 1]

(* initializeProjects up to its first await *)
StartInit(e, r) ==
  IF e.runs[r].folders = <<>>
    THEN [DisposeProjects(e) EXCEPT !.runs[r].pc = "done"]
  ELSE BeginFolder(DisposeProjects(e), r, 1)

(* A project is pushed without a look at the folders already held *)
PushProject(projects, success, proj) ==
  IF success THEN Append(projects, proj) ELSE projects

(* No run of initializeProjects is waiting for a project *)
NoOverlap(e) == \A r \in InitRunIds : e.runs[r].pc # "await"

WithRun(e, r) ==
  [e EXCEPT !.runs[r] = [IdleInit EXCEPT !.pc = "idle",
                                         !.folders = e.folders,
                                         !.autoRefresh = e.autoRefresh],
            !.overlapped = @ \/ ~NoOverlap(e)]

InitProjects ==
  /\ ext \in {[op |-> "projects", folders |-> l, kind |-> k,
               autoRefresh |-> a, objs |-> <<>>, projects |-> <<>>,
               runs |-> [r \in InitRunIds |-> IdleInit],
               deactivated |-> FALSE, overlapped |-> FALSE] :
                l \in FolderLists, a \in BOOLEAN,
                k \in [{"f1", "f2"} -> FolderKinds]}
  /\ fs = [p \in Paths |-> <<>>]
  /\ dirs = {}
  /\ env = 0
  /\ task = [p \in PlanPaths |-> IdleTask]
  /\ batch = NoBatch
  /\ pure = NoPure
  /\ mtime = [p \in PlanPaths |-> 0]

Others == <<fs, dirs, env, task, batch, pure, mtime>>

(* activate: await initializeProjects(settings) *)
Activate ==
  /\ ext.runs[1].pc = "idle"
  /\ ext' = StartInit(WithRun(ext, 1), 1)
  /\ UNCHANGED Others

(* The handlers are registered once activate's run has returned *)
HandlersRegistered == ext.runs[1].pc = "done" /\ ~ext.deactivated

IsNextRun(r) ==
  /\ r > 1
  /\ ext.runs[r].pc = "idle"
  /\ \A q \in 1..(r - 1) : ext.runs[q].pc # "idle"

(* onDidChangeWorkspaceFolders: a folder was added or removed *)
WorkspaceFoldersChanged(r, l) ==
  /\ HandlersRegistered
  /\ IsNextRun(r)
  /\ l # ext.folders
  /\ ext' = StartInit(WithRun([ext EXCEPT !.folders = l], r), r)
  /\ UNCHANGED Others

(* onDidChangeConfiguration with e.affectsConfiguration('claudekit') *)
ConfigurationChanged(r, a) ==
  /\ HandlersRegistered
  /\ IsNextRun(r)
  /\ ext' = StartInit(WithRun([ext EXCEPT !.autoRefresh = a], r), r)
  /\ UNCHANGED Others

(* await project.initialize() returns: the project is tracked if it loaded  *)
(* plans, and the loop goes on to the next folder or the run returns        *)
ResumeInit(r) ==
  /\ ext.runs[r].pc = "await"
  /\ LET run  == ext.runs[r]
         e    == [ext EXCEPT
                    !.projects =
                      PushProject(@, InitializeSucceeds(
                                       ext.kind[run.folders[run.i]]),
                                  run.proj)]
     IN  ext' = IF run.i < Len(run.folders) THEN BeginFolder(e, r, run.i + 1)
                ELSE [e EXCEPT !.runs[r].pc = "done"]
  /\ UNCHANGED Others

(* deactivate: the projects of the list are disposed *)
Deactivate ==
  /\ ext.runs[1].pc = "done"
  /\ ~ext.deactivated
  /\ ext' = [DisposeProjects(ext) EXCEPT !.deactivated = TRUE]
  /\ UNCHANGED Others

NextProjects ==
  \/ Activate
  \/ \E r \in InitRunIds : \E l \in FolderLists : WorkspaceFoldersChanged(r, l)
  \/ \E r \in InitRunIds : \E a \in BOOLEAN : ConfigurationChanged(r, a)
  \/ \E r \in InitRunIds : ResumeInit(r)
  \/ Deactivate

SpecProjects == InitProjects /\ [][NextProjects]_vars

OnePerFolder(e) ==
  \A i, j \in 1..Len(e.projects) :
    i # j => e.objs[e.projects[i]].folder # e.objs[e.projects[j]].folder

(* C25: once all runs of initializeProjects have completed, the projects   *)
(* list holds at most one PlansProject per workspace folder.                *)
C25_OneProjectPerFolder ==
  NoOverlap(ext) => OnePerFolder(ext)

(* What holds: the list holds one project per folder at most as long as no *)
(* run of initializeProjects started while another was waiting.            *)
C25_OnePerFolderWithoutOverlap ==
  (NoOverlap(ext) /\ ~ext.overlapped) => OnePerFolder(ext)

IsHeld(e, id) == \E k \in 1..Len(e.projects) : e.projects[k] = id

IsAwaited(e, id) ==
  \E r \in InitRunIds : e.runs[r].pc = "await" /\ e.runs[r].proj = id

(* C28: a project whose watchers were created and that is not disposed is   *)
(* in the projects list, or a run of initializeProjects still waits for it. *)
C28_WatchersReachable ==
  \A id \in DOMAIN ext.objs :
    (ext.objs[id].watching /\ ~ext.objs[id].disposed) =>
      (IsHeld(ext, id) \/ IsAwaited(ext, id))

(* What holds: the same for the projects of folders whose directory holds   *)
(* plans.                                                                   *)
C28_LoadedProjectsReachable ==
  \A id \in DOMAIN ext.objs :
    (/\ ext.objs[id].watching
     /\ ~ext.objs[id].disposed
     /\ ext.kind[ext.objs[id].folder] = "plans") =>
      (IsHeld(ext, id) \/ IsAwaited(ext, id))
====
